---- MODULE Spec2Model ----
(***************************************************************************)
(* Model of src/src/services/geoportail.ts: the RequestQueue rate limiter, *)
(* its callers (searchLocationsNearPath, searchAddress) and the elevation  *)
(* lookup fetchElevations with its recursive 413 splitting.                *)
(*                                                                         *)
(* JavaScript runs each callback to completion; a process only gives up    *)
(* control at an await.  Every action below is one such run: from the      *)
(* resumption of a callback to its next await (or its end).                *)
(***************************************************************************)
EXTENDS Integers, Sequences, FiniteSets, TLC

(* ------------------------------ bounds -------------------------------- *)
\* number of concurrent searchLocationsNearPath callers
MaxSearches == 3
\* Date.now() when the page starts issuing requests (ms, scaled down epoch)
StartTime == 100
\* the clock is observed every TickMs milliseconds
TickMs == 20
\* number of clock ticks explored
MaxTicks == 6
\* accepted candidates a feature-search response may yield
MaxResults == 1

(* ------------------------- program constants -------------------------- *)
\* RequestQueue.minDelayMs
minDelayMs == 50

VARIABLES
    now,              \* Date.now()
    queue,            \* RequestQueue.queue: the queued task wrappers, by add() number
    isProcessing,     \* RequestQueue.isProcessing
    lastRequestTime,  \* RequestQueue.lastRequestTime
    resolveStack,     \* RequestQueue.resolveStack: resolve functions, by promise number
    rejectStack,      \* RequestQueue.rejectStack: reject functions, by promise number
    loops,            \* the running processQueue() invocations, each at its await
    promise,          \* the promises returned by add(), by add() number
    nAdded,           \* number of add() calls so far
    sent,             \* the requests the queue has dispatched so far: task, time,
                      \* and the tasks left in the queue when the task was taken
    search,           \* the searchLocationsNearPath calls
    addr,             \* the searchAddress call: where it is, and how its
                      \* request to the completion provider ended
    coordinates,      \* fetchElevations: the input list
    coordIndex,       \* fetchElevations: coordIndex, 6-decimal key -> input position
    elevationMap,     \* fetchElevations: elevationMap, key -> rounded elevation
    estack,           \* the fetchWithRetry calls that have not returned, innermost last
    epc,              \* where fetchElevations is: idle, running, returned, rejected
    reqs,             \* the elevation requests sent so far: batch, depth, and
                      \* whether the answer was a 413
    lastOut,          \* the outcome of the latest elevation request
    carried,          \* (input key, rounded elevation) pairs that successful
                      \* responses have carried so far
    echoed,           \* keys of the inputs that a result with an elevation has
                      \* echoed so far, at 6 or at 5 decimals
    circles,          \* layers store: circles
    lineSegments,     \* layers store: lineSegments
    points,           \* layers store: points
    notes,            \* layers store: notes
    leafletIdMap,     \* layers store: leafletIdMap, `${type}_${id}` -> Leaflet id
    handles,          \* the handle last stored for each (type, id) pair and not
                      \* deleted since
    layers,           \* the layers on the Leaflet map: stamp, and the element
                      \* type and id of the layer's className
    nextStamp,        \* the id L.stamp gives to the next new layer
    lastOp,           \* the latest call into useDrawing or the layers store
    pathPoints,       \* searchLocationsNearPath: pathPoints
    searchDistanceKm, \* searchLocationsNearPath: searchDistanceKm
    bufferPolygon,    \* searchLocationsNearPath: bufferPolygon
    results,          \* searchLocationsNearPath: results, its entries in insertion order
    cursor,           \* number of elements of the response processed so far
    resultArray,      \* searchLocationsNearPath: resultArray, the list it returns
    exteriorRing,     \* pointInPolygon: the exterior ring of the polygon asked about
    query,            \* pointInPolygon: the point asked about, <<x, y>>
    answers           \* what pointInPolygon returned for the ring as given
                      \* ("open") and with its first vertex repeated ("closed")

qvars == <<now, queue, isProcessing, lastRequestTime, resolveStack, rejectStack,
           loops, promise, nAdded, sent, search, addr>>

evars == <<coordinates, coordIndex, elevationMap, estack, epc, reqs,
           lastOut, carried, echoed>>

svars == <<circles, lineSegments, points, notes, leafletIdMap, handles,
           layers, nextStamp, lastOp>>

zvars == <<pathPoints, searchDistanceKm, bufferPolygon, results, cursor,
           resultArray>>

pvars == <<exteriorRing, query, answers>>

Searches == 1..MaxSearches
TaskIds == 1..MaxSearches
MaxTime == StartTime + MaxTicks * TickMs

(* ------------------------------ helpers ------------------------------- *)
\* a fresh layers store and a map with no drawn layer
StoreStart ==
    /\ circles = <<>>
    /\ lineSegments = <<>>
    /\ points = <<>>
    /\ notes = <<>>
    /\ leafletIdMap = <<>>
    /\ handles = <<>>
    /\ layers = {}
    /\ nextStamp = 1
    /\ lastOp = [op |-> "init"]

undefined == "<undefined>"
\* a geometry member, and a bufferPolygon argument, that are not there
NoGeometry == [type |-> undefined, coordinates |-> <<>>]
NoPolygon == [type |-> undefined, coordinates |-> <<>>, geometry |-> NoGeometry]
\* no search for locations is running
ZoneIdle ==
    /\ pathPoints = <<>>
    /\ searchDistanceKm = 0
    /\ bufferPolygon = NoPolygon
    /\ results = <<>>
    /\ cursor = 0
    /\ resultArray = <<>>
\* pointInPolygon has not been asked
RingIdle ==
    /\ exteriorRing = <<>>
    /\ query = <<0, 0>>
    /\ answers = <<>>

RemoveAt(s, i) == [k \in 1..(Len(s) - 1) |-> IF k < i THEN s[k] ELSE s[k + 1]]

\* the RequestQueue object as one value, so that one run of add()/processQueue()
\* can be computed step by step as the code executes it
QState == [queue |-> queue, isProcessing |-> isProcessing,
           lastRequestTime |-> lastRequestTime, resolveStack |-> resolveStack,
           rejectStack |-> rejectStack, loops |-> loops, sent |-> sent]

SetQ(q) ==
    /\ queue' = q.queue
    /\ isProcessing' = q.isProcessing
    /\ lastRequestTime' = q.lastRequestTime
    /\ resolveStack' = q.resolveStack
    /\ rejectStack' = q.rejectStack
    /\ loops' = q.loops
    /\ sent' = q.sent

(* --------------------------- RequestQueue ----------------------------- *)
\* Array.prototype.shift() on this.queue takes the element at this index
QueueShiftIndex_Pop(q) == Len(q)
QueueShiftIndex(q) == 1

\* Array.prototype.shift() on resolveStack / rejectStack takes this index
ResolverShiftIndex_Pop(stk) == Len(stk)
ResolverShiftIndex(stk) == 1

\* setTimeout delay the wrapper asks for, given Date.now() - lastRequestTime
DelayFor_NoWait(since) == 0
DelayFor(since) == IF since < minDelayMs THEN minDelayMs - since ELSE 0

\* value processQueue() gives isProcessing before its while loop
ProcessingFlagOnStart_Unset == FALSE
ProcessingFlagOnStart == TRUE

\* where processQueue() continues after `await requestFn()` settled with kind:
\* the try/catch swallows a rejection, so the loop goes on either way
LoopAfterAwait_NoCatch(kind) == IF kind = "err" THEN "aborted" ELSE "resume"
LoopAfterAwait(kind) == "resume"

\* add()'s test before it calls processQueue()
AddStartsLoop(q) == ~q.isProcessing

\* processQueue()'s entry guard: TRUE when it returns at once
ProcessQueueReturnsEarly(q) == q.isProcessing \/ Len(q.queue) = 0

\* the request of task t leaves for the feature-search provider
Dispatch(q, i, t, time) ==
    [q EXCEPT !.lastRequestTime = time,
              !.loops[i].pc = "request",
              !.sent = Append(@, [task |-> t, at |-> time,
                                  left |-> q.loops[i].left])]

\* the wrapper pushed by add() for task t, run by loop i, up to its first await
RunWrapper(q, i, t, time) ==
    IF Len(q.resolveStack) = 0 \/ Len(q.rejectStack) = 0
    THEN \* throw new Error('No resolver found'): the wrapper rejects at once
         [q EXCEPT !.resolveStack = IF Len(@) = 0 THEN @
                                    ELSE RemoveAt(@, ResolverShiftIndex(@)),
                   !.rejectStack = IF Len(@) = 0 THEN @
                                   ELSE RemoveAt(@, ResolverShiftIndex(@)),
                   !.loops[i] = [pc |-> LoopAfterAwait("err"), task |-> t,
                                 res |-> 0, rej |-> 0, wake |-> 0,
                                 left |-> Len(q.queue)]]
    ELSE LET ri == ResolverShiftIndex(q.resolveStack)
             ji == ResolverShiftIndex(q.rejectStack)
             q1 == [q EXCEPT !.resolveStack = RemoveAt(@, ri),
                             !.rejectStack = RemoveAt(@, ji),
                             !.loops[i] = [pc |-> "delay", task |-> t,
                                           res |-> q.resolveStack[ri],
                                           rej |-> q.rejectStack[ji],
                                           wake |-> time, left |-> Len(q.queue)]]
             d == DelayFor(time - q.lastRequestTime)
         IN IF d > 0
            THEN [q1 EXCEPT !.loops[i].wake = time + d]
            ELSE Dispatch(q1, i, t, time)

\* one turn of processQueue()'s while loop for loop i: take the next task and
\* run it to its first await, or leave the loop and clear isProcessing
LoopIter_KeepsFlag(q, i, time) ==
    IF Len(q.queue) > 0
    THEN LET k == QueueShiftIndex(q.queue)
         IN RunWrapper([q EXCEPT !.queue = RemoveAt(@, k)], i, q.queue[k], time)
    ELSE [q EXCEPT !.loops = RemoveAt(@, i)]
LoopIter(q, i, time) ==
    IF Len(q.queue) > 0
    THEN LET k == QueueShiftIndex(q.queue)
         IN RunWrapper([q EXCEPT !.queue = RemoveAt(@, k)], i, q.queue[k], time)
    ELSE [q EXCEPT !.isProcessing = FALSE, !.loops = RemoveAt(@, i)]

\* processQueue() from its call to its first await
ProcessQueue(q, time) ==
    IF ProcessQueueReturnsEarly(q)
    THEN q
    ELSE LET q1 == [q EXCEPT !.isProcessing = ProcessingFlagOnStart,
                             !.loops = Append(@, [pc |-> "resume", task |-> 0,
                                                  res |-> 0, rej |-> 0, wake |-> 0,
                                                  left |-> 0])]
         IN LoopIter(q1, Len(q1.loops), time)

\* add(requestFn) for the add() call numbered id
AddTask_Twice(q, id, time) ==
    LET q1 == [q EXCEPT !.resolveStack = Append(Append(@, id), id),
                        !.rejectStack = Append(Append(@, id), id),
                        !.queue = Append(Append(@, id), id)]
    IN IF AddStartsLoop(q1) THEN ProcessQueue(q1, time) ELSE q1
AddTask(q, id, time) ==
    LET q1 == [q EXCEPT !.resolveStack = Append(@, id),
                        !.rejectStack = Append(@, id),
                        !.queue = Append(@, id)]
    IN IF AddStartsLoop(q1) THEN ProcessQueue(q1, time) ELSE q1

\* resolveItem(result) / rejectItem(error): settles promise p with the outcome
\* of task t; settling a settled promise changes nothing
Settle(pr, p, st, t) ==
    IF p \in DOMAIN pr /\ pr[p].st = "pending"
    THEN [pr EXCEPT ![p] = [st |-> st, of |-> t]]
    ELSE pr

(* ------------------------------ actions ------------------------------- *)
\* time passes
Tick ==
    /\ now + TickMs <= MaxTime
    /\ now' = now + TickMs
    /\ UNCHANGED <<queue, isProcessing, lastRequestTime, resolveStack, rejectStack,
                   loops, promise, nAdded, sent, search, addr>>
    /\ UNCHANGED <<evars, svars, zvars, pvars>>

\* the s-th call of searchLocationsNearPath(pathPoints), with a path of n
\* points, up to its await
SearchCall(s, n) ==
    /\ search[s].pc = "idle"
    /\ \A r \in Searches : r < s => search[r].pc # "idle"
    /\ IF n = 0
       THEN /\ search' = [search EXCEPT ![s].pc = "returned"]
            /\ UNCHANGED <<queue, isProcessing, lastRequestTime, resolveStack,
                           rejectStack, loops, promise, nAdded, sent>>
       ELSE LET id == nAdded + 1
            IN /\ nAdded' = id
               /\ promise' = [promise EXCEPT ![id] = [st |-> "pending", of |-> 0]]
               /\ SetQ(AddTask(QState, id, now))
               /\ search' = [search EXCEPT ![s] = [@ EXCEPT !.pc = "awaitAdd",
                                                            !.task = id]]
    /\ UNCHANGED <<now, addr>>
    /\ UNCHANGED <<evars, svars, zvars, pvars>>

\* the setTimeout of loop i's wrapper fires: the wrapper stamps lastRequestTime
\* and calls requestFn()
TimerFire(i) ==
    /\ i \in DOMAIN loops
    /\ loops[i].pc = "delay"
    /\ now >= loops[i].wake
    /\ SetQ(Dispatch(QState, i, loops[i].task, now))
    /\ UNCHANGED <<now, promise, nAdded, search, addr>>
    /\ UNCHANGED <<evars, svars, zvars, pvars>>

\* the fetch of loop i's task settles: the wrapper settles the caller's promise
\* and returns or rethrows into processQueue()
TaskSettle(i, kind) ==
    /\ i \in DOMAIN loops
    /\ loops[i].pc = "request"
    /\ promise' = Settle(promise,
                         IF kind = "ok" THEN loops[i].res ELSE loops[i].rej,
                         IF kind = "ok" THEN "fulfilled" ELSE "rejected",
                         loops[i].task)
    /\ loops' = [loops EXCEPT ![i].pc = LoopAfterAwait(kind)]
    /\ UNCHANGED <<now, queue, isProcessing, lastRequestTime, resolveStack,
                   rejectStack, nAdded, sent, search, addr>>
    /\ UNCHANGED <<evars, svars, zvars, pvars>>

\* processQueue() resumes after its await and goes round its while loop
LoopResume(i) ==
    /\ i \in DOMAIN loops
    /\ loops[i].pc = "resume"
    /\ SetQ(LoopIter(QState, i, now))
    /\ UNCHANGED <<now, promise, nAdded, search, addr>>
    /\ UNCHANGED <<evars, svars, zvars, pvars>>

\* where searchLocationsNearPath goes when the awaited add() promise rejected:
\* the await sits inside the array literal, before Promise.allSettled and
\* outside any try, so the rejection leaves the function
OnAddRejected == "threw"

\* searchLocationsNearPath resumes after `await requestQueue.add(...)`: a
\* rejection propagates out of the function; a response is parsed into k
\* accepted results (0 also for a parser error or an exception while parsing)
\* and, when k > 0, fetchElevations sends its first request
SearchResume(s, k) ==
    /\ search[s].pc = "awaitAdd"
    /\ promise[search[s].task].st \in {"fulfilled", "rejected"}
    /\ IF promise[search[s].task].st = "rejected"
       THEN /\ k = 0
            /\ search' = [search EXCEPT ![s].pc = OnAddRejected]
       ELSE search' = [search EXCEPT ![s].pc = IF k = 0 THEN "returned" ELSE "elev"]
    /\ UNCHANGED <<now, queue, isProcessing, lastRequestTime, resolveStack,
                   rejectStack, loops, promise, nAdded, sent, addr>>
    /\ UNCHANGED <<evars, svars, zvars, pvars>>

\* an elevation request of search s settles: fetchWithRetry either sends the
\* next sub-batch (after a 413), or fetchElevations returns and so does the search
SearchElevSettle(s, more) ==
    /\ search[s].pc = "elev"
    /\ search' = [search EXCEPT ![s].pc = IF more THEN "elev" ELSE "returned"]
    /\ UNCHANGED <<now, queue, isProcessing, lastRequestTime, resolveStack,
                   rejectStack, loops, promise, nAdded, sent, addr>>
    /\ UNCHANGED <<evars, svars, zvars, pvars>>

\* searchAddress(query): a blank query returns []; otherwise fetch() directly
AddrCall(blank) ==
    /\ addr.pc = "idle"
    /\ addr' = IF blank THEN [pc |-> "returned", outcome |-> "blank"]
                        ELSE [pc |-> "fetching", outcome |-> "none"]
    /\ UNCHANGED <<now, queue, isProcessing, lastRequestTime, resolveStack,
                   rejectStack, loops, promise, nAdded, sent, search>>
    /\ UNCHANGED <<evars, svars, zvars, pvars>>

\* how the completion request can end: fetch() rejects; a status that is not
\* ok; an ok response whose body is no JSON, is the JSON null, has no results
\* list, has a results list with a null in it, or has a list of results
AddrOutcomes ==
    {"neterr", "status", "badjson", "nullbody", "noresults", "nullresult", "ok"}

\* where searchAddress ends for an outcome: the try block throws on a failed
\* fetch and on a status that is not ok, and so do response.json(), data.results
\* of null and result.fulltext of null; its catch rethrows them all
AddrEnd(outcome) ==
    IF outcome \in {"neterr", "status", "badjson", "nullbody", "nullresult"}
    THEN "threw"
    ELSE "returned"

\* the completion fetch settles
AddrSettle(outcome) ==
    /\ addr.pc = "fetching"
    /\ addr' = [pc |-> AddrEnd(outcome), outcome |-> outcome]
    /\ UNCHANGED <<now, queue, isProcessing, lastRequestTime, resolveStack,
                   rejectStack, loops, promise, nAdded, sent, search>>
    /\ UNCHANGED <<evars, svars, zvars, pvars>>

QueueInit ==
    /\ now = StartTime
    /\ queue = <<>>
    /\ isProcessing = FALSE
    /\ lastRequestTime = 0
    /\ resolveStack = <<>>
    /\ rejectStack = <<>>
    /\ loops = <<>>
    /\ promise = [t \in TaskIds |-> [st |-> "none", of |-> 0]]
    /\ nAdded = 0
    /\ sent = <<>>
    /\ search = [s \in Searches |-> [pc |-> "idle", task |-> 0]]
    /\ addr = [pc |-> "idle", outcome |-> "none"]

\* no fetchElevations call is under way
ElevIdle ==
    /\ coordinates = <<>>
    /\ coordIndex = <<>>
    /\ elevationMap = <<>>
    /\ estack = <<>>
    /\ epc = "idle"
    /\ reqs = <<>>
    /\ lastOut = "none"
    /\ carried = {}
    /\ echoed = {}

QInit == QueueInit /\ ElevIdle /\ StoreStart /\ ZoneIdle /\ RingIdle

QNext ==
    \/ Tick
    \/ \E s \in Searches, n \in 0..2 : SearchCall(s, n)
    \/ \E i \in 1..MaxSearches : TimerFire(i)
    \/ \E i \in 1..MaxSearches, kind \in {"ok", "err"} : TaskSettle(i, kind)
    \/ \E i \in 1..MaxSearches : LoopResume(i)
    \/ \E s \in Searches, k \in 0..MaxResults : SearchResume(s, k)
    \/ \E s \in Searches, more \in BOOLEAN : SearchElevSettle(s, more)
    \/ \E blank \in BOOLEAN : AddrCall(blank)
    \/ \E outcome \in AddrOutcomes : AddrSettle(outcome)

vars == <<qvars, evars, svars, zvars, pvars>>

SpecQueue == QInit /\ [][QNext]_vars

\* a clock reading, one tick further in the past
Earlier(t) == IF t >= TickMs THEN t - TickMs ELSE 0

\* time passes, with no last instant: the queue only looks at differences
\* between Date.now() and the readings it keeps, so the clock is left where
\* it is and the readings kept move one tick into the past instead
TickOn ==
    /\ lastRequestTime' = Earlier(lastRequestTime)
    /\ loops' = [i \in DOMAIN loops |-> [loops[i] EXCEPT !.wake = Earlier(@)]]
    /\ sent' = [k \in DOMAIN sent |-> [sent[k] EXCEPT !.at = Earlier(@)]]
    /\ UNCHANGED <<now, queue, isProcessing, resolveStack, rejectStack,
                   promise, nAdded, search, addr>>
    /\ UNCHANGED <<evars, svars, zvars, pvars>>

\* the queue and its callers, time never stopping
QLiveNext ==
    \/ TickOn
    \/ \E s \in Searches : SearchCall(s, 1)
    \/ \E i \in 1..MaxSearches : TimerFire(i)
    \/ \E i \in 1..MaxSearches, kind \in {"ok", "err"} : TaskSettle(i, kind)
    \/ \E i \in 1..MaxSearches : LoopResume(i)

\* time passes, timers fire, awaited calls resume, and every request that
\* was sent is answered or fails; add() is called whenever a caller likes
SpecQueueLive ==
    /\ QInit
    /\ [][QLiveNext]_vars
    /\ WF_vars(TickOn)
    /\ \A i \in 1..MaxSearches :
          /\ WF_vars(TimerFire(i))
          /\ WF_vars(\E kind \in {"ok", "err"} : TaskSettle(i, kind))
          /\ WF_vars(LoopResume(i))
(* -------------------------- fetchElevations --------------------------- *)
(* Coordinates are integers in units of 1e-7 degree and elevations in      *)
(* tenths of a metre, so that rounding to 6 and to 5 decimals and to whole *)
(* metres is computed and not assumed.  A decimal string is the record of  *)
(* its sign, the number of decimals it prints and its digits as a number:  *)
(* two strings are equal exactly when the three agree.                     *)

\* `iteration >= 5`, `iteration < 5`
MaxIterations == 5

Abs(x) == IF x < 0 THEN -x ELSE x
Pow10(k) == IF k = 0 THEN 1 ELSE IF k = 1 THEN 10 ELSE IF k = 2 THEN 100
            ELSE IF k = 3 THEN 1000 ELSE IF k = 4 THEN 10000
            ELSE IF k = 5 THEN 100000 ELSE IF k = 6 THEN 1000000 ELSE 10000000

\* Number.prototype.toFixed(f) of x (1e-7 units), f in 0..7: the magnitude is
\* rounded to f decimals, halves up, and printed with exactly f decimals; a
\* negative x keeps its sign even when it rounds to zero
ToFixed(x, f) ==
    [neg |-> x < 0, dec |-> f,
     mag |-> (Abs(x) + (Pow10(7 - f) \div 2)) \div Pow10(7 - f)]

\* number of trailing decimal zeros of r > 0, at most 6
RECURSIVE TrailingZeros(_, _)
TrailingZeros(r, k) ==
    IF k = 6 \/ r % 10 # 0 THEN k ELSE TrailingZeros(r \div 10, k + 1)

\* `${Math.round(x * 1_000_000) / 1_000_000}`: Math.round rounds halves up
\* (towards +infinity); the quotient prints with no trailing zeros, and zero,
\* negative zero included, prints as "0"
RoundedToString(x) ==
    LET r == (x + 5) \div 10
        z == IF r = 0 THEN 6 ELSE TrailingZeros(Abs(r), 0)
    IN [neg |-> r < 0, dec |-> 6 - z, mag |-> Abs(r) \div Pow10(z)]

\* `${lat.toFixed(6)}_${lon.toFixed(6)}`
Key6(c) == <<ToFixed(c.lat, 6), ToFixed(c.lon, 6)>>
\* `${lat.toFixed(5)}_${lon.toFixed(5)}`
Key5(c) == <<ToFixed(c.lat, 5), ToFixed(c.lon, 5)>>
\* `${Math.round(lat * 1e6) / 1e6}_${Math.round(lon * 1e6) / 1e6}`
KeyRounded(c) == <<RoundedToString(c.lat), RoundedToString(c.lon)>>

\* the keys tried for one result of a response, in order
ResultKeys(r) == <<Key6(r), Key5(r), KeyRounded(r)>>

\* Math.round(result.elevation), elevation in tenths of a metre
RoundElevation(e) == (e + 5) \div 10

\* Map.prototype.set
MapSet(m, k, v) == [x \in (DOMAIN m) \cup {k} |-> IF x = k THEN v ELSE m[x]]

\* coordIndex as built from the input list: a later duplicate key overwrites
RECURSIVE BuildCoordIndex(_, _, _)
BuildCoordIndex(coords, i, idx) ==
    IF i > Len(coords) THEN idx
    ELSE BuildCoordIndex(coords, i + 1, MapSet(idx, Key6(coords[i]), i - 1))

\* `result.elevation !== null`
HasElevation_Any(r) == TRUE
HasElevation(r) == ~r.elevation.isNull

\* the first of the three keys that coordIndex has, 0 when it has none
FoundKeyIndex(keys, idx) ==
    IF keys[1] \in DOMAIN idx THEN 1
    ELSE IF keys[2] \in DOMAIN idx THEN 2
    ELSE IF keys[3] \in DOMAIN idx THEN 3 ELSE 0

\* one turn of the loop over data.results, for result r: the map it leaves and
\* whether it threw (a result without numeric latitude/longitude makes toFixed
\* throw)
ProcessResult(map, idx, r) ==
    IF ~HasElevation(r) THEN [map |-> map, threw |-> FALSE]
    ELSE IF ~r.ok THEN [map |-> map, threw |-> TRUE]
    ELSE LET keys == ResultKeys(r)
             f == FoundKeyIndex(keys, idx)
         IN IF f = 0 THEN [map |-> map, threw |-> FALSE]
            ELSE [map |-> MapSet(map, keys[f], RoundElevation(r.elevation.v)),
                  threw |-> FALSE]

\* `iteration >= 5` of fetchWithRetry's entry test
DepthExhausted_OffByOne(iteration) == iteration >= MaxIterations + 1
DepthExhausted(iteration) == iteration >= MaxIterations

\* Math.ceil(coords.length / 2)
SplitPoint_Floor(n) == n \div 2
SplitPoint(n) == (n + 1) \div 2

\* one fetchElevations call as a value: the calls in progress, the requests
\* sent and where the call is
EState == [stack |-> estack, reqs |-> reqs, epc |-> epc]

\* a fetchWithRetry call ends: its frame leaves the stack of calls
PopFrame_All(e) == [e EXCEPT !.stack = <<>>]
PopFrame(e) == [e EXCEPT !.stack = SubSeq(@, 1, Len(@) - 1)]

RECURSIVE CallFetchWithRetry(_, _, _, _)
RECURSIVE ReturnToCaller(_)

\* fetchWithRetry(coords.slice(lo, lo + n), it) from its call to its first
\* await: it returns at once for an empty batch or at the depth bound, and
\* otherwise sends its request
CallFetchWithRetry(e, lo, n, it) ==
    IF n = 0 \/ DepthExhausted(it)
    THEN ReturnToCaller(e)
    ELSE [e EXCEPT !.reqs = Append(@, [lo |-> lo, n |-> n, it |-> it,
                                       out |-> "pending"]),
                   !.stack = Append(@, [lo |-> lo, n |-> n, it |-> it,
                                        pc |-> "fetch", rid |-> Len(e.reqs) + 1,
                                        seen |-> 0])]

\* a fetchWithRetry call has returned to the code that awaits it: the call
\* waiting for batch1 goes on to batch2, the call waiting for batch2 returns
\* itself, and with no call left fetchElevations returns the map
ReturnToCaller(e) ==
    IF Len(e.stack) = 0
    THEN [e EXCEPT !.epc = "returned"]
    ELSE LET f == e.stack[Len(e.stack)]
             mid == SplitPoint(f.n)
         IN IF f.pc = "batch1"
            THEN CallFetchWithRetry([e EXCEPT !.stack[Len(e.stack)].pc = "batch2"],
                                    f.lo + mid, f.n - mid, f.it + 1)
            ELSE ReturnToCaller(PopFrame(e))

\* the innermost call gets a 413: below the depth bound it splits and calls
\* itself on the first half; otherwise the status is only logged
OnPayloadTooLarge_BothAtOnce(e) ==
    LET f == e.stack[Len(e.stack)]
        first == CallFetchWithRetry([e EXCEPT !.stack[Len(e.stack)].pc = "batch2"],
                                    f.lo, SplitPoint(f.n), f.it + 1)
    IN CallFetchWithRetry(first, f.lo + SplitPoint(f.n), f.n - SplitPoint(f.n),
                          f.it + 1)
OnPayloadTooLarge(e) ==
    LET f == e.stack[Len(e.stack)]
    IN IF f.it < MaxIterations
       THEN CallFetchWithRetry([e EXCEPT !.stack[Len(e.stack)].pc = "batch1"],
                               f.lo, SplitPoint(f.n), f.it + 1)
       ELSE ReturnToCaller(PopFrame(e))

\* an exception inside fetchWithRetry's try block: the catch logs it and the
\* call returns normally
FrameThrows_Uncaught(e) == [e EXCEPT !.stack = <<>>, !.epc = "rejected"]
FrameThrows_Splits(e) == OnPayloadTooLarge(e)
FrameThrows(e) == ReturnToCaller(PopFrame(e))

SetE(e) ==
    /\ estack' = e.stack
    /\ reqs' = e.reqs
    /\ epc' = e.epc

(* the inputs and the provider's answers *)
\* coordinates a response may carry: inputs echoed (InputSeq), and one echoed at
\* 5 decimals
EchoPool == {[lat |-> 488566140, lon |-> 23522190],
             [lat |-> 451000000, lon |-> 60000000],
             [lat |-> 488566100, lon |-> 23522200]}
\* elevations a response may carry: null, 10.4 m, 10.5 m
ElevationPool == {[isNull |-> TRUE, v |-> 0], [isNull |-> FALSE, v |-> 104],
                  [isNull |-> FALSE, v |-> 105]}
\* length of the input list when the provider answers freely
MaxCoords == 2
\* length of the input list when the provider always answers 413
MaxBatch == 17
\* results read from one response
MaxTriples == 2

Triples ==
    [ok : {TRUE}, lat : {c.lat : c \in EchoPool}, lon : {c.lon : c \in EchoPool},
     elevation : ElevationPool]
RealTriples == {t \in Triples : [lat |-> t.lat, lon |-> t.lon] \in EchoPool}
\* a result whose latitude is missing
BadTriple == [ok |-> FALSE, lat |-> 0, lon |-> 0, elevation |-> [isNull |-> FALSE, v |-> 0]]
\* what one elevation request can come back with: a 413, another non-success
\* status, a network error, a body that is no JSON, a body without results,
\* or a body with a results list
Outcomes == {"413", "status", "throw", "badjson", "noresults", "ok"}

InputSeq == <<[lat |-> 488566140, lon |-> 23522190],
              [lat |-> 488566143, lon |-> 23522190],
              [lat |-> 451000000, lon |-> 60000000]>>
\* an input list of n coordinates, taken from the pool in turn from the k-th on
BatchOf(n, k) == [i \in 1..n |-> InputSeq[((i + k - 1) % 3) + 1]]

\* the input keys that the results of a successful response match, each with
\* the elevation the result gives it
Matches(r, c) ==
    /\ r.ok
    /\ ~r.elevation.isNull
    /\ \E m \in 1..3 : ResultKeys(r)[m] = Key6(c)
CarriedBy(r) ==
    {<<Key6(coordinates[i]), RoundElevation(r.elevation.v)>> :
        i \in {k \in DOMAIN coordinates : Matches(r, coordinates[k])}}

\* x (1e-7 degree) as the provider prints it when it rounds to f decimals
RoundedTo(x, f) ==
    (IF x < 0 THEN -1 ELSE 1) * ToFixed(x, f).mag * Pow10(7 - f)
\* result r, which has an elevation, is input c echoed at f decimals
EchoesAt(r, c, f) ==
    /\ r.ok
    /\ ~r.elevation.isNull
    /\ r.lat = RoundedTo(c.lat, f)
    /\ r.lon = RoundedTo(c.lon, f)
EchoedBy(r) ==
    {Key6(coordinates[i]) :
        i \in {k \in DOMAIN coordinates :
                  \E f \in {5, 6} : EchoesAt(r, coordinates[k], f)}}

\* fetchElevations(coordinates) up to its first await
FetchElevations ==
    /\ epc = "idle"
    /\ IF Len(coordinates) = 0
       THEN /\ epc' = "returned"
            /\ UNCHANGED <<coordIndex, estack, reqs>>
       ELSE /\ coordIndex' = BuildCoordIndex(coordinates, 1, <<>>)
            /\ SetE(CallFetchWithRetry([EState EXCEPT !.epc = "running"],
                                       1, Len(coordinates), 0))
    /\ UNCHANGED <<coordinates, elevationMap, lastOut, carried, echoed>>
    /\ UNCHANGED <<qvars, svars, zvars, pvars>>

\* the request of the innermost fetchWithRetry call settles with outcome o; the
\* call runs on to the next request of the whole fetchElevations call or to
\* its end, or, given a results list, enters its loop over the results
ElevRespond(o) ==
    /\ epc = "running"
    /\ Len(estack) > 0
    /\ estack[Len(estack)].pc = "fetch"
    /\ LET f == estack[Len(estack)]
           e == [EState EXCEPT !.reqs[f.rid].out =
                                   IF o = "413" THEN "413"
                                   ELSE IF o \in {"status", "throw"} THEN "abandoned"
                                   ELSE "answered"]
       IN CASE o = "413" -> SetE(OnPayloadTooLarge(e))
            [] o \in {"status", "noresults"} -> SetE(ReturnToCaller(PopFrame(e)))
            [] o \in {"throw", "badjson"} -> SetE(FrameThrows(e))
            [] o = "ok" -> SetE([e EXCEPT !.stack[Len(estack)].pc = "results"])
    /\ lastOut' = o
    /\ UNCHANGED <<coordinates, coordIndex, elevationMap, carried, echoed>>
    /\ UNCHANGED <<qvars, svars, zvars, pvars>>

\* one turn of the loop over data.results, for the next result r
ElevResult(r) ==
    /\ epc = "running"
    /\ Len(estack) > 0
    /\ estack[Len(estack)].pc = "results"
    /\ estack[Len(estack)].seen < MaxTriples
    /\ LET p == ProcessResult(elevationMap, coordIndex, r)
           e == [EState EXCEPT !.stack[Len(estack)].seen = @ + 1]
       IN /\ elevationMap' = p.map
          /\ carried' = carried \cup CarriedBy(r)
          /\ echoed' = echoed \cup EchoedBy(r)
          /\ SetE(IF p.threw THEN FrameThrows(e) ELSE e)
          /\ lastOut' = IF p.threw THEN "badresult" ELSE lastOut
    /\ UNCHANGED <<coordinates, coordIndex>>
    /\ UNCHANGED <<qvars, svars, zvars, pvars>>

\* data.results is exhausted: the call returns
ElevResultsEnd ==
    /\ epc = "running"
    /\ Len(estack) > 0
    /\ estack[Len(estack)].pc = "results"
    /\ SetE(ReturnToCaller(PopFrame(EState)))
    /\ UNCHANGED <<coordinates, coordIndex, elevationMap, lastOut, carried, echoed>>
    /\ UNCHANGED <<qvars, svars, zvars, pvars>>

\* fetchElevations has not been called yet
ElevStart ==
    /\ coordIndex = <<>>
    /\ elevationMap = <<>>
    /\ estack = <<>>
    /\ epc = "idle"
    /\ reqs = <<>>
    /\ lastOut = "none"
    /\ carried = {}
    /\ echoed = {}

\* one fetchElevations call on a short list, the provider answering freely
EInit ==
    /\ QueueInit
    /\ ElevStart
    /\ StoreStart
    /\ ZoneIdle
    /\ RingIdle
    /\ \E n \in 0..MaxCoords, k \in 0..2 : coordinates = BatchOf(n, k)

ENext ==
    \/ FetchElevations
    \/ \E o \in Outcomes : ElevRespond(o)
    \/ \E r \in RealTriples \cup {BadTriple} : ElevResult(r)
    \/ ElevResultsEnd

SpecElev == EInit /\ [][ENext]_vars

\* one fetchElevations call on a batch of any size up to MaxBatch, the provider
\* answering 413 (payload too large) to every request
EInit413 ==
    /\ QueueInit
    /\ ElevStart
    /\ StoreStart
    /\ ZoneIdle
    /\ RingIdle
    /\ \E n \in 0..MaxBatch : coordinates = BatchOf(n, 0)

ENext413 ==
    \/ FetchElevations
    \/ ElevRespond("413")

\* every request is answered in the end: fetch() settles
SpecElev413 == EInit413 /\ [][ENext413]_vars /\ WF_vars(ENext413)

(* ---------------------------- layers store ---------------------------- *)
\* stored elements at most, over the three collections
MaxEntities == 2
\* notes at most
MaxNotes == 2
\* layers created at most (L.stamp hands out 1, 2, ...)
MaxStamps == 3
\* records of the collection that a loadLayers input varies
MaxLoad == 2

(* JavaScript values, as far as the store looks at them *)
\* values for which `typeof v === 'string'` is false
NonStrings == {undefined, "<null>", "<number>"}
\* values for which `typeof v === 'number'` holds: NaN, the infinities, and
\* finite numbers by sign
Numbers == {"nan", "inf", "neginf", "pos", "zero", "neg"}
TypeofString(v) == v \notin NonStrings
TypeofNumber(v) == v \in Numbers
NumberIsNaN(v) == v = "nan"
\* `v > 0`
GreaterThanZero(v) == v \in {"pos", "inf"}
\* `if (v)` for a string-valued or missing field
Truthy(v) == v \notin {undefined, "<null>", ""}

\* the element types the store keeps, and their collections
Kinds == {"circle", "lineSegment", "point"}
CollectionOf(kind) ==
    CASE kind = "circle" -> "circles"
      [] kind = "lineSegment" -> "lineSegments"
      [] kind = "point" -> "points"
\* the element types a note may name
LinkTypes == Kinds \cup {"polygon"}
\* element ids (uuidv4 strings) and note ids
IdSeq == <<"a", "b">>
Ids == {IdSeq[k] : k \in DOMAIN IdSeq}
FindId(id) == CHOOSE k \in DOMAIN IdSeq : IdSeq[k] = id
NoteIds == {"n1", "n2"}

\* an object with lat and lon, or no object
LatLon(lat, lon) == [present |-> TRUE, lat |-> lat, lon |-> lon]
NoLatLon == [present |-> FALSE, lat |-> undefined, lon |-> undefined]

\* the CircleElement that drawCircle builds; its leafletId is h
NewCircle(id, h) ==
    [isNull |-> FALSE, id |-> id, name |-> "name", center |-> LatLon("pos", "pos"),
     radius |-> "pos", noteId |-> undefined, leafletId |-> h]
\* the LineSegmentElement that drawLineSegment builds
NewLineSegment(id, mode, h) ==
    [isNull |-> FALSE, id |-> id, name |-> "name", center |-> LatLon("pos", "pos"),
     mode |-> mode, longitude |-> undefined, endpoint |-> LatLon("pos", "neg"),
     noteId |-> undefined, leafletId |-> h]
\* the LineSegmentElement that drawParallel builds
NewParallel(id, h) ==
    [isNull |-> FALSE, id |-> id, name |-> "name", center |-> LatLon("pos", "zero"),
     mode |-> "parallel", longitude |-> "pos", endpoint |-> NoLatLon,
     noteId |-> undefined, leafletId |-> h]
\* the PointElement that drawPoint builds
NewPoint(id, h) ==
    [isNull |-> FALSE, id |-> id, name |-> "name",
     coordinates |-> LatLon("pos", "pos"), noteId |-> undefined, leafletId |-> h]
\* a NoteElement
NewNote(id, type, elementId) ==
    [isNull |-> FALSE, id |-> id, title |-> "title", content |-> "content",
     linkedElementType |-> type, linkedElementId |-> elementId]

Merge_Replace(old, partial) == partial

\* `{ ...old, ...partial }`
Merge(old, partial) ==
    [f \in (DOMAIN old) \cup (DOMAIN partial) |->
        IF f \in DOMAIN partial THEN partial[f] ELSE old[f]]

\* Map.prototype.delete
MapDelete(m, k) == [x \in (DOMAIN m) \ {k} |-> m[x]]

\* array.findIndex((e) => e.id === id): 0 stands for -1
FindIndex(seq, id) ==
    IF \E i \in DOMAIN seq : seq[i].id = id
    THEN CHOOSE i \in DOMAIN seq :
            /\ seq[i].id = id
            /\ \A j \in 1..(i - 1) : seq[j].id # id
    ELSE 0

\* the store and the map as one value, so that one call can be computed step
\* by step as the code executes it
DState == [circles |-> circles, lineSegments |-> lineSegments, points |-> points,
           notes |-> notes, leafletIdMap |-> leafletIdMap, handles |-> handles,
           layers |-> layers, nextStamp |-> nextStamp]
SetD(d) ==
    /\ circles' = d.circles
    /\ lineSegments' = d.lineSegments
    /\ points' = d.points
    /\ notes' = d.notes
    /\ leafletIdMap' = d.leafletIdMap
    /\ handles' = d.handles
    /\ layers' = d.layers
    /\ nextStamp' = d.nextStamp

(* the store's functions *)
\* `${elementType}_${elementId}`
HandleKey_IdOnly(elementType, elementId) == elementId
HandleKey(elementType, elementId) == elementType \o "_" \o elementId

storeLeafletId(d, elementType, elementId, leafletId) ==
    [d EXCEPT !.leafletIdMap = MapSet(@, HandleKey(elementType, elementId), leafletId),
              !.handles = MapSet(@, <<elementType, elementId>>, leafletId)]

\* 0 stands for undefined
getLeafletId(d, elementType, elementId) ==
    IF HandleKey(elementType, elementId) \in DOMAIN d.leafletIdMap
    THEN d.leafletIdMap[HandleKey(elementType, elementId)]
    ELSE 0

\* addCircle, addLineSegment, addPoint: push
addElement(d, kind, e) == [d EXCEPT ![CollectionOf(kind)] = Append(@, e)]
addCircle(d, circle) == addElement(d, "circle", circle)
addLineSegment(d, segment) == addElement(d, "lineSegment", segment)
addPoint(d, point) == addElement(d, "point", point)

\* updateCircle, updateLineSegment, updatePoint of the store: merge in place
updateElement(d, kind, id, partial) ==
    LET i == FindIndex(d[CollectionOf(kind)], id)
    IN IF i = 0 THEN d
       ELSE [d EXCEPT ![CollectionOf(kind)][i] = Merge(@, partial)]

\* deleteCircle, deleteLineSegment, deletePoint: the handle goes only when the
\* element has a leafletId
deleteFromStore(d, kind, id) ==
    LET i == FindIndex(d[CollectionOf(kind)], id)
    IN IF i = 0 THEN d
       ELSE LET e == d[CollectionOf(kind)][i]
                d1 == IF e.leafletId # 0
                      THEN [d EXCEPT !.leafletIdMap = MapDelete(@, HandleKey(kind, id)),
                                     !.handles = MapDelete(@, <<kind, id>>)]
                      ELSE d
            IN [d1 EXCEPT ![CollectionOf(kind)] = RemoveAt(@, i)]
deleteCircle(d, id) == deleteFromStore(d, "circle", id)
deleteLineSegment(d, id) == deleteFromStore(d, "lineSegment", id)
deletePoint(d, id) == deleteFromStore(d, "point", id)

\* getElement: the position of the element in its collection; 0 when there is
\* none, or when the type is none of circle, lineSegment, point
getElement(d, elementType, elementId) ==
    IF elementType \in Kinds
    THEN FindIndex(d[CollectionOf(elementType)], elementId)
    ELSE 0

\* `element.noteId = note.id` of addNote and updateNote: an earlier noteId is
\* replaced (with a warning)
LinkElement_KeepFirst(e, noteId) ==
    IF Truthy(e.noteId) THEN e ELSE [e EXCEPT !.noteId = noteId]
LinkElement(e, noteId) == [e EXCEPT !.noteId = noteId]

unlinkElement_Never(d, elementType, elementId, noteId) == d
unlinkElement_Always(d, elementType, elementId, noteId) ==
    LET i == getElement(d, elementType, elementId)
    IN IF i # 0
       THEN [d EXCEPT ![CollectionOf(elementType)][i].noteId = undefined]
       ELSE d

\* `if (element && element.noteId === id) element.noteId = undefined`
unlinkElement(d, elementType, elementId, noteId) ==
    LET i == getElement(d, elementType, elementId)
    IN IF i # 0 /\ d[CollectionOf(elementType)][i].noteId = noteId
       THEN [d EXCEPT ![CollectionOf(elementType)][i].noteId = undefined]
       ELSE d

\* `if (element) element.noteId = id`
linkElement(d, elementType, elementId, noteId) ==
    LET i == getElement(d, elementType, elementId)
    IN IF i # 0
       THEN [d EXCEPT ![CollectionOf(elementType)][i] = LinkElement(@, noteId)]
       ELSE d

addNote(d, note) ==
    LET d1 == IF /\ Truthy(note.linkedElementType)
                 /\ Truthy(note.linkedElementId)
                 /\ Truthy(note.id)
              THEN linkElement(d, note.linkedElementType, note.linkedElementId,
                               note.id)
              ELSE d
    IN [d1 EXCEPT !.notes = Append(@, note)]

updateNote(d, id, partial) ==
    LET index == FindIndex(d.notes, id)
    IN IF index = 0 THEN d
       ELSE LET oldNote == d.notes[index]
                updatedNote == Merge(oldNote, partial)
                changed == \/ oldNote.linkedElementId # updatedNote.linkedElementId
                           \/ oldNote.linkedElementType # updatedNote.linkedElementType
                d1 == IF /\ changed
                         /\ Truthy(oldNote.linkedElementType)
                         /\ Truthy(oldNote.linkedElementId)
                      THEN unlinkElement(d, oldNote.linkedElementType,
                                         oldNote.linkedElementId, id)
                      ELSE d
                d2 == IF /\ changed
                         /\ Truthy(updatedNote.linkedElementType)
                         /\ Truthy(updatedNote.linkedElementId)
                         /\ Truthy(updatedNote.id)
                      THEN linkElement(d1, updatedNote.linkedElementType,
                                       updatedNote.linkedElementId, updatedNote.id)
                      ELSE d1
            IN [d2 EXCEPT !.notes[index] = updatedNote]

deleteNote(d, id) ==
    LET index == FindIndex(d.notes, id)
    IN IF index = 0 THEN d
       ELSE LET note == d.notes[index]
                d1 == IF /\ Truthy(note.linkedElementType)
                         /\ Truthy(note.linkedElementId)
                      THEN unlinkElement(d, note.linkedElementType,
                                         note.linkedElementId, id)
                      ELSE d
            IN [d1 EXCEPT !.notes = RemoveAt(@, index)]

clearLayers_KeepsHandles(d) ==
    [d EXCEPT !.circles = <<>>, !.lineSegments = <<>>, !.points = <<>>,
              !.notes = <<>>]

clearLayers(d) ==
    [d EXCEPT !.circles = <<>>, !.lineSegments = <<>>, !.points = <<>>,
              !.notes = <<>>, !.leafletIdMap = <<>>, !.handles = <<>>]

validateCircle(circle) ==
    /\ ~circle.isNull
    /\ TypeofString(circle.id)
    /\ TypeofString(circle.name)
    /\ circle.center.present
    /\ TypeofNumber(circle.center.lat)
    /\ TypeofNumber(circle.center.lon)
    /\ TypeofNumber(circle.radius)
    /\ ~NumberIsNaN(circle.center.lat)
    /\ ~NumberIsNaN(circle.center.lon)
    /\ ~NumberIsNaN(circle.radius)
    /\ GreaterThanZero(circle.radius)

validateLineSegment(segment) ==
    IF \/ segment.isNull
       \/ ~TypeofString(segment.id)
       \/ ~TypeofString(segment.name)
       \/ ~segment.center.present
       \/ ~TypeofNumber(segment.center.lat)
       \/ ~TypeofNumber(segment.center.lon)
       \/ ~Truthy(segment.mode)
    THEN FALSE
    ELSE IF segment.mode = "parallel"
    THEN TypeofNumber(segment.longitude) /\ ~NumberIsNaN(segment.longitude)
    ELSE /\ segment.endpoint.present
         /\ TypeofNumber(segment.endpoint.lat)
         /\ TypeofNumber(segment.endpoint.lon)
         /\ ~NumberIsNaN(segment.endpoint.lat)
         /\ ~NumberIsNaN(segment.endpoint.lon)

validatePoint(point) ==
    /\ ~point.isNull
    /\ TypeofString(point.id)
    /\ TypeofString(point.name)
    /\ point.coordinates.present
    /\ TypeofNumber(point.coordinates.lat)
    /\ TypeofNumber(point.coordinates.lon)
    /\ ~NumberIsNaN(point.coordinates.lat)
    /\ ~NumberIsNaN(point.coordinates.lon)

validateNote(note) ==
    /\ ~note.isNull
    /\ TypeofString(note.id)
    /\ TypeofString(note.title)
    /\ TypeofString(note.content)

\* an argument field of loadLayers: a list, nothing (undefined), or a value
\* that is neither (an object, a number)
ListOf(items) == [shape |-> "list", items |-> items]
Missing == [shape |-> "missing", items |-> <<>>]
NonList == [shape |-> "nonlist", items |-> <<>>]
\* `(field || [])`
OrEmpty(field) == field.items

\* the four filters of loadLayers: the records passing validation, in order
validCircles_Batch(items) ==
    IF \A i \in DOMAIN items : validateCircle(items[i]) THEN items ELSE <<>>
validCircles(items) == SelectSeq(items, validateCircle)
validLineSegments(items) == SelectSeq(items, validateLineSegment)
validPoints(items) == SelectSeq(items, validatePoint)
validNotes(items) == SelectSeq(items, validateNote)

\* loadLayers: the state it leaves, and whether it threw (filter is not a
\* function of a value that is no list)
loadLayers(d, data) ==
    LET d0 == clearLayers(d)
    IN IF \E f \in {"circles", "lineSegments", "points", "notes"} :
              data[f].shape = "nonlist"
       THEN [d |-> d0, threw |-> TRUE]
       ELSE [d |-> [d0 EXCEPT
                      !.circles = validCircles(OrEmpty(data.circles)),
                      !.lineSegments = validLineSegments(OrEmpty(data.lineSegments)),
                      !.points = validPoints(OrEmpty(data.points)),
                      !.notes = validNotes(OrEmpty(data.notes))],
             threw |-> FALSE]

(* useDrawing: the map side.  The map is mounted (mapRef.map.value is set). *)
\* L.polyline(...)/L.circleMarker(...).addTo(map), and L.stamp of the new layer
addLayer(d, kind, id) ==
    [d EXCEPT !.layers = @ \cup {[stamp |-> d.nextStamp, kind |-> kind, id |-> id]},
              !.nextStamp = @ + 1]

\* map.eachLayer: removeLayer of the layers whose stamp is leafletId
removeLayer(d, leafletId) ==
    [d EXCEPT !.layers = {l \in @ : l.stamp # leafletId}]

\* redrawCircleOnMap, redrawLineSegmentOnMap, redrawParallelOnMap,
\* redrawPointOnMap: a new layer, its handle, and the element's leafletId
redrawOnMap(d, kind, id) ==
    LET d1 == storeLeafletId(addLayer(d, kind, id), kind, id, d.nextStamp)
        i == FindIndex(d1[CollectionOf(kind)], id)
    IN IF i = 0 THEN d1
       ELSE [d1 EXCEPT ![CollectionOf(kind)][i].leafletId = d.nextStamp]

\* drawCircle, drawLineSegment, drawParallel, drawPoint, for the new element
\* e whose leafletId is the new layer's stamp
drawElement(d, kind, e) ==
    addElement(storeLeafletId(addLayer(d, kind, e.id), kind, e.id, d.nextStamp),
               kind, e)

\* updateCircle of useDrawing: the old layer is taken out of the document,
\* not off the map, and the element's leafletId stays as it was
updateCircleOnMap(d, circleId) ==
    IF ~Truthy(circleId) THEN d
    ELSE LET d1 == updateElement(d, "circle", circleId,
                                 [center |-> LatLon("pos", "pos"),
                                  radius |-> "pos"])
         IN storeLeafletId(addLayer(d1, "circle", circleId), "circle", circleId,
                           d.nextStamp)

\* updateLineSegment of useDrawing
updateLineSegmentOnMap(d, lineId) ==
    IF ~Truthy(lineId) THEN d
    ELSE LET d1 == updateElement(d, "lineSegment", lineId,
                                 [center |-> LatLon("pos", "pos"),
                                  endpoint |-> LatLon("pos", "neg"),
                                  mode |-> "coordinate"])
         IN storeLeafletId(addLayer(d1, "lineSegment", lineId), "lineSegment",
                           lineId, d.nextStamp)

\* updateParallel: the layer stamped with the element's leafletId is removed
updateParallel(d, lineId) ==
    IF ~Truthy(lineId) THEN d
    ELSE LET d1 == updateElement(d, "lineSegment", lineId,
                                 [center |-> LatLon("pos", "zero"),
                                  mode |-> "parallel", longitude |-> "pos"])
             i == FindIndex(d1.lineSegments, lineId)
             d2 == IF i # 0 /\ d1.lineSegments[i].leafletId # 0
                   THEN removeLayer(d1, d1.lineSegments[i].leafletId)
                   ELSE d1
         IN storeLeafletId(addLayer(d2, "lineSegment", lineId), "lineSegment",
                           lineId, d2.nextStamp)

\* the element that updateElementVisibility redraws is a parallel, which it
\* draws as a new element
RedrawsParallel(d, elementType, elementId) ==
    /\ elementType = "lineSegment"
    /\ FindIndex(d.lineSegments, elementId) # 0
    /\ d.lineSegments[FindIndex(d.lineSegments, elementId)].mode = "parallel"

\* the switch of updateElementVisibility; newId is what generateId returns
\* when drawParallel is called
redrawVisible(d, elementType, elementId, newId) ==
    LET i == FindIndex(d[CollectionOf(elementType)], elementId)
    IN IF i = 0 THEN d
       ELSE IF RedrawsParallel(d, elementType, elementId)
       THEN drawElement(d, "lineSegment", NewParallel(newId, d.nextStamp))
       ELSE IF elementType = "lineSegment" /\ ~d.lineSegments[i].endpoint.present
       THEN d
       ELSE redrawOnMap(d, elementType, elementId)

updateElementVisibility(d, elementType, elementId, visible, newId) ==
    LET leafletId == getLeafletId(d, elementType, elementId)
        found == \E l \in d.layers : l.stamp = leafletId
    IN IF ~Truthy(elementId) \/ leafletId = 0 THEN d
       ELSE IF found
       THEN (IF visible THEN d ELSE removeLayer(d, leafletId))
       ELSE (IF visible THEN redrawVisible(d, elementType, elementId, newId) ELSE d)

\* deleteNote for each id of the list, in turn
RECURSIVE deleteNotes(_, _)
deleteNotes(d, ids) ==
    IF ids = <<>> THEN d
    ELSE deleteNotes(IF Truthy(Head(ids)) THEN deleteNote(d, Head(ids)) ELSE d,
                     Tail(ids))

\* the ids of the notes linked to the element, as the filter lists them
RECURSIVE LinkedNoteIds(_, _, _)
LinkedNoteIds(ns, elementType, elementId) ==
    IF ns = <<>> THEN <<>>
    ELSE (IF /\ Head(ns).linkedElementType = elementType
             /\ Head(ns).linkedElementId = elementId
          THEN <<Head(ns).id>> ELSE <<>>)
         \o LinkedNoteIds(Tail(ns), elementType, elementId)

deleteElement(d, elementType, elementId) ==
    IF ~Truthy(elementId) THEN d
    ELSE LET i == FindIndex(d[CollectionOf(elementType)], elementId)
             d1 == IF i # 0 /\ d[CollectionOf(elementType)][i].leafletId # 0
                   THEN removeLayer(d, d[CollectionOf(elementType)][i].leafletId)
                   ELSE d
             d2 == deleteNotes(d1, LinkedNoteIds(d1.notes, elementType, elementId))
         IN deleteFromStore(d2, elementType, elementId)

clearAllElements(d) == [clearLayers(d) EXCEPT !.layers = {}]

\* the loops of redrawAllElements over one collection, from its i-th element
RECURSIVE redrawEach(_, _, _)
redrawEach(d, kind, i) ==
    IF i > Len(d[CollectionOf(kind)]) THEN d
    ELSE LET e == d[CollectionOf(kind)][i]
             drawn == IF ~Truthy(e.id) THEN FALSE
                      ELSE IF kind # "lineSegment" THEN TRUE
                      ELSE IF e.mode = "parallel" /\ e.longitude # undefined THEN TRUE
                      ELSE e.endpoint.present
         IN redrawEach(IF drawn THEN redrawOnMap(d, kind, e.id) ELSE d, kind, i + 1)

redrawAllElements(d) ==
    redrawEach(redrawEach(redrawEach([d EXCEPT !.layers = {}], "circle", 1),
                          "lineSegment", 1),
               "point", 1)

(* the calls the application makes *)
\* generateId: a uuid, which nothing has used before
UsedIds(d) ==
    {d.circles[i].id : i \in DOMAIN d.circles}
        \cup {d.lineSegments[i].id : i \in DOMAIN d.lineSegments}
        \cup {d.points[i].id : i \in DOMAIN d.points}
        \cup {d.notes[i].linkedElementId : i \in DOMAIN d.notes}
        \cup {l.id : l \in d.layers}
        \cup {p[2] : p \in DOMAIN d.handles}
generateId(d) ==
    {id \in Ids \ UsedIds(d) : \A other \in Ids \ UsedIds(d) : FindId(id) <= FindId(other)}

\* the bounds of the exploration
WithinBounds(d) ==
    /\ Len(d.circles) + Len(d.lineSegments) + Len(d.points) <= MaxEntities
    /\ Len(d.notes) <= MaxNotes
    /\ d.nextStamp <= MaxStamps + 1

\* the call leaves the store and the map as d
Call(d) ==
    /\ WithinBounds(d)
    /\ SetD(d)
    /\ UNCHANGED <<qvars, evars, zvars, pvars>>

\* the store has an element of this type and id: the application edits,
\* hides, shows and deletes the elements it lists
Stored(kind, id) == FindIndex(DState[CollectionOf(kind)], id) # 0

DrawCircle ==
    /\ \E id \in generateId(DState) :
          Call(drawElement(DState, "circle", NewCircle(id, nextStamp)))
    /\ lastOp' = [op |-> "call"]

DrawLineSegment ==
    /\ \E id \in generateId(DState) :
          Call(drawElement(DState, "lineSegment",
                           NewLineSegment(id, "coordinate", nextStamp)))
    /\ lastOp' = [op |-> "call"]

DrawParallel ==
    /\ \E id \in generateId(DState) :
          Call(drawElement(DState, "lineSegment", NewParallel(id, nextStamp)))
    /\ lastOp' = [op |-> "call"]

DrawPoint ==
    /\ \E id \in generateId(DState) :
          Call(drawElement(DState, "point", NewPoint(id, nextStamp)))
    /\ lastOp' = [op |-> "call"]

\* updateCircle(id, ...) of useDrawing, for a circle of the store
UpdateCircle(id) ==
    /\ Stored("circle", id)
    /\ Call(updateCircleOnMap(DState, id))
    /\ lastOp' = [op |-> "call"]

UpdateLineSegment(id) ==
    /\ Stored("lineSegment", id)
    /\ Call(updateLineSegmentOnMap(DState, id))
    /\ lastOp' = [op |-> "call"]

UpdateParallel(id) ==
    /\ Stored("lineSegment", id)
    /\ Call(updateParallel(DState, id))
    /\ lastOp' = [op |-> "call"]

UpdateElementVisibility(kind, id, visible) ==
    /\ Stored(kind, id)
    /\ IF RedrawsParallel(DState, kind, id)
       THEN \E newId \in generateId(DState) :
               Call(updateElementVisibility(DState, kind, id, visible, newId))
       ELSE Call(updateElementVisibility(DState, kind, id, visible, id))
    /\ lastOp' = [op |-> "call"]

DeleteElement(kind, id) ==
    /\ Stored(kind, id)
    /\ Call(deleteElement(DState, kind, id))
    /\ lastOp' = [op |-> "call"]

ClearAllElements ==
    /\ Call(clearAllElements(DState))
    /\ lastOp' = [op |-> "clearLayers"]

RedrawAllElements ==
    /\ Call(redrawAllElements(DState))
    /\ lastOp' = [op |-> "call"]

\* layersStore.addNote(note), the note's id being new
AddNote(note) ==
    /\ \A i \in DOMAIN notes : notes[i].id # note.id
    /\ Call(addNote(DState, note))
    /\ lastOp' = [op |-> "call"]

\* layersStore.updateNote(id, partial) for a note of the store
\* a call that moves the note from a stored element that has its id to a
\* stored element of another type is recorded with the link the note had
UpdateNote(id, partial) ==
    /\ FindIndex(notes, id) # 0
    /\ Call(updateNote(DState, id, partial))
    /\ LET oldNote == notes[FindIndex(notes, id)]
           updatedNote == Merge(oldNote, partial)
           x == getElement(DState, oldNote.linkedElementType, oldNote.linkedElementId)
           y == getElement(DState, updatedNote.linkedElementType,
                           updatedNote.linkedElementId)
       IN lastOp' =
             IF /\ oldNote.linkedElementType # updatedNote.linkedElementType
                /\ x # 0 /\ y # 0
                /\ DState[CollectionOf(oldNote.linkedElementType)][x].noteId = id
             THEN [op |-> "updateNote", id |-> id,
                   oldElementType |-> oldNote.linkedElementType,
                   oldElementId |-> oldNote.linkedElementId]
             ELSE [op |-> "call"]

\* the note of this id is stored and the element it links to has the id of
\* another note as its noteId
Orphaned(d, id) ==
    /\ FindIndex(d.notes, id) # 0
    /\ LET note == d.notes[FindIndex(d.notes, id)]
           i == getElement(d, note.linkedElementType, note.linkedElementId)
       IN  /\ i # 0
           /\ Truthy(d[CollectionOf(note.linkedElementType)][i].noteId)
           /\ d[CollectionOf(note.linkedElementType)][i].noteId # id

DeleteNote(id) ==
    /\ Call(deleteNote(DState, id))
    /\ lastOp' = IF Orphaned(DState, id)
                 THEN [op |-> "deleteNote", id |-> id]
                 ELSE [op |-> "call"]

\* layersStore.loadLayers(data)
LoadLayers(data) ==
    /\ SetD(loadLayers(DState, data).d)
    /\ UNCHANGED <<qvars, evars, zvars, pvars>>
    /\ lastOp' = [op |-> "loadLayers", data |-> data,
                  threw |-> loadLayers(DState, data).threw]

(* the inputs *)
\* the notes the application adds: unlinked, or linked to an element
NotesToAdd ==
    {NewNote(n, undefined, undefined) : n \in NoteIds}
        \cup {NewNote(n, t, i) : n \in NoteIds, t \in LinkTypes, i \in Ids}
\* the changes the application makes to a note: its text, its link, no link
NotePartials ==
    {[content |-> "content"]}
        \cup {[linkedElementType |-> t, linkedElementId |-> i] :
                 t \in LinkTypes, i \in Ids}
        \cup {[linkedElementType |-> undefined, linkedElementId |-> undefined]}
\* what loadLayers is called with
LoadData(c, l, p, n) == [circles |-> c, lineSegments |-> l, points |-> p, notes |-> n]
\* saved projects: a circle with its note and a point of the same id, saved
\* without leafletId; elements saved with the leafletId they had; an empty
\* project; and one whose circles are no list
SavedData ==
    {LoadData(ListOf(<<[NewCircle("a", 0) EXCEPT !.noteId = "n1"]>>), ListOf(<<>>),
              ListOf(<<NewPoint("a", 0)>>),
              ListOf(<<NewNote("n1", "circle", "a")>>)),
     LoadData(ListOf(<<NewCircle("a", 1)>>),
              ListOf(<<NewParallel("b", 2)>>), ListOf(<<>>), Missing),
     LoadData(ListOf(<<>>), ListOf(<<>>), ListOf(<<>>), Missing),
     LoadData(NonList, ListOf(<<>>), ListOf(<<>>), Missing)}

\* layersStore.addCircle/addLineSegment/addPoint with a new element that has
\* no layer
AddElement(kind) ==
    /\ \E id \in generateId(DState) :
          Call(addElement(DState, kind,
                          CASE kind = "circle" -> NewCircle(id, 0)
                            [] kind = "lineSegment" -> NewLineSegment(id, "coordinate", 0)
                            [] kind = "point" -> NewPoint(id, 0)))
    /\ lastOp' = [op |-> "call"]

\* layersStore.updateCircle/updateLineSegment/updatePoint, the name given again
UpdateElement(kind, id) ==
    /\ Call(updateElement(DState, kind, id, [name |-> "name"]))
    /\ lastOp' = [op |-> "call"]

\* layersStore.deleteCircle/deleteLineSegment/deletePoint
DeleteFromStore(kind, id) ==
    /\ Call(deleteFromStore(DState, kind, id))
    /\ lastOp' = [op |-> "call"]

SInit == QueueInit /\ ElevIdle /\ StoreStart /\ ZoneIdle /\ RingIdle

NNext ==
    \/ \E kind \in Kinds : AddElement(kind)
    \/ \E kind \in Kinds, id \in Ids : UpdateElement(kind, id)
    \/ \E kind \in Kinds, id \in Ids : DeleteFromStore(kind, id)
    \/ \E note \in NotesToAdd : AddNote(note)
    \/ \E id \in NoteIds, partial \in NotePartials : UpdateNote(id, partial)
    \/ \E id \in NoteIds : DeleteNote(id)
    \/ \E data \in SavedData : LoadLayers(data)

\* the store under its own functions: elements and notes added, changed,
\* deleted and loaded
SpecNotes == SInit /\ [][NNext]_vars

SNext ==
    \/ DrawCircle
    \/ DrawLineSegment
    \/ DrawParallel
    \/ DrawPoint
    \/ \E id \in Ids : UpdateCircle(id)
    \/ \E id \in Ids : UpdateLineSegment(id)
    \/ \E id \in Ids : UpdateParallel(id)
    \/ \E kind \in Kinds, id \in Ids, visible \in BOOLEAN :
          UpdateElementVisibility(kind, id, visible)
    \/ \E kind \in Kinds, id \in Ids : DeleteElement(kind, id)
    \/ ClearAllElements
    \/ RedrawAllElements
    \/ \E kind \in Kinds, id \in Ids : AddNote(NewNote("n1", kind, id))
    \/ \E data \in SavedData : LoadLayers(data)

\* the application drawing, editing, hiding, deleting, annotating and loading
SpecStore == SInit /\ [][SNext]_vars

(* loadLayers on its own: one call, on data of every shape *)
\* values a numeric field of a loaded record may hold besides a positive
\* number
FieldValues == {"nan", "inf", "zero", "neg", "<string>"}
\* circles as loadLayers may be given them: a valid one, and ones with one
\* field off
CirclePool ==
    LET c == NewCircle("a", 0)
    IN {c, [c EXCEPT !.isNull = TRUE], [c EXCEPT !.id = "<number>"],
        [c EXCEPT !.center = NoLatLon]}
         \cup {[c EXCEPT !.radius = v] : v \in FieldValues}
         \cup {[c EXCEPT !.center.lat = v] : v \in {"nan", "inf"}}
         \cup {[c EXCEPT !.center.lon = v] : v \in {undefined}}
\* line segments of every mode, valid and with one field off
LineSegmentPool ==
    LET s == NewLineSegment("a", "coordinate", 0)
        p == NewParallel("b", 0)
    IN {s, p, [s EXCEPT !.mode = "azimuth"], [s EXCEPT !.mode = "intersection"],
        [s EXCEPT !.mode = undefined], [s EXCEPT !.endpoint = NoLatLon],
        [p EXCEPT !.name = undefined]}
         \cup {[s EXCEPT !.center.lat = v] : v \in {"nan", "<string>"}}
         \cup {[s EXCEPT !.endpoint.lon = v] : v \in {"nan", "neginf"}}
         \cup {[p EXCEPT !.longitude = v] : v \in {"nan", undefined}}
\* points, valid and with one field off
PointPool ==
    LET p == NewPoint("a", 0)
    IN {p, [p EXCEPT !.isNull = TRUE], [p EXCEPT !.name = "<number>"],
        [p EXCEPT !.coordinates = NoLatLon]}
         \cup {[p EXCEPT !.coordinates.lat = v] : v \in {"nan", "inf", "<string>"}}
         \cup {[p EXCEPT !.coordinates.lon = v] : v \in {"nan"}}
\* notes, valid and without a title
NotePool ==
    {NewNote("n1", "circle", "a"),
     [NewNote("n2", undefined, undefined) EXCEPT !.title = undefined]}

\* the shapes of one collection of the data: nothing, no list, or a list of
\* at most MaxLoad records of the pool
Collections(pool) ==
    {Missing, NonList} \cup UNION {{ListOf(l) : l \in [1..n -> pool]} : n \in 0..MaxLoad}
\* the other collections of the data: nothing, or one valid record
Plain(e) == {Missing, ListOf(<<e>>)}

\* the store before the call: new, or holding a drawn circle with its note
EmptyD ==
    [circles |-> <<>>, lineSegments |-> <<>>, points |-> <<>>, notes |-> <<>>,
     leafletIdMap |-> <<>>, handles |-> <<>>, layers |-> {}, nextStamp |-> 1]
StoresBefore ==
    {EmptyD,
     addNote(drawElement(EmptyD, "circle", NewCircle("b", 1)),
             NewNote("n2", "circle", "b"))}

LInit ==
    /\ QueueInit
    /\ ElevIdle
    /\ \E d \in StoresBefore :
          /\ circles = d.circles
          /\ lineSegments = d.lineSegments
          /\ points = d.points
          /\ notes = d.notes
          /\ leafletIdMap = d.leafletIdMap
          /\ handles = d.handles
          /\ layers = d.layers
          /\ nextStamp = d.nextStamp
    /\ lastOp = [op |-> "init"]
    /\ ZoneIdle
    /\ RingIdle

\* the one call: one collection of the data is of any shape, the others are
\* plain
LoadOnce ==
    /\ lastOp.op = "init"
    /\ \/ \E c \in Collections(CirclePool), p \in Plain(NewPoint("a", 0)),
             n \in Plain(NewNote("n1", "circle", "a")) :
               LoadLayers(LoadData(c, Missing, p, n))
       \/ \E l \in Collections(LineSegmentPool), c \in Plain(NewCircle("a", 0)) :
               LoadLayers(LoadData(c, l, Missing, Missing))
       \/ \E p \in Collections(PointPool), l \in Plain(NewParallel("b", 0)) :
               LoadLayers(LoadData(Missing, l, p, Missing))
       \/ \E n \in Collections(NotePool), c \in Plain(NewCircle("a", 0)) :
               LoadLayers(LoadData(c, Missing, ListOf(<<>>), n))

LNext == LoadOnce

SpecLoad == LInit /\ [][LNext]_vars

(* --------------------------- element update --------------------------- *)
\* one updateCircle, updateLineSegment or updatePoint of the store, on a store
\* that holds elements, a note and handles

\* stores before the call: two circles and a point, the first circle with a
\* note; a line segment with a note and a parallel; nothing
UpdateStores ==
    {addNote(drawElement(drawElement(drawElement(EmptyD,
                 "circle", NewCircle("a", 1)),
                 "circle", NewCircle("b", 2)),
                 "point", NewPoint("a", 3)),
             NewNote("n1", "circle", "a")),
     addNote(drawElement(drawElement(drawElement(EmptyD,
                 "lineSegment", NewLineSegment("a", "coordinate", 1)),
                 "lineSegment", NewParallel("b", 2)),
                 "point", NewPoint("b", 3)),
             NewNote("n2", "lineSegment", "a")),
     EmptyD}

\* the partial elements the call is given
Partials(kind) ==
    {[name |-> "renamed"], [noteId |-> "n2"], [leafletId |-> 3],
     [name |-> "renamed", noteId |-> undefined], [id |-> "c"]}
        \cup CASE kind = "circle" ->
                    {[radius |-> "zero"],
                     [center |-> LatLon("neg", "pos"), radius |-> "pos",
                      name |-> "name"]}
               [] kind = "lineSegment" ->
                    {[mode |-> "azimuth"],
                     [endpoint |-> LatLon("zero", "zero"), mode |-> "coordinate"]}
               [] kind = "point" ->
                    {[coordinates |-> LatLon("neg", "neg")]}

\* the ids the call is given: those of the application and one that no
\* element has
UpdateIds == Ids \cup {"c"}

UpdateOnce(kind, id, partial) ==
    /\ lastOp.op = "init"
    /\ SetD(updateElement(DState, kind, id, partial))
    /\ lastOp' = [op |-> "update", kind |-> kind, id |-> id, partial |-> partial]
    /\ UNCHANGED <<qvars, evars, zvars, pvars>>

UInit ==
    /\ QueueInit
    /\ ElevIdle
    /\ \E d \in UpdateStores :
          /\ circles = d.circles
          /\ lineSegments = d.lineSegments
          /\ points = d.points
          /\ notes = d.notes
          /\ leafletIdMap = d.leafletIdMap
          /\ handles = d.handles
          /\ layers = d.layers
          /\ nextStamp = d.nextStamp
    /\ lastOp = [op |-> "init"]
    /\ ZoneIdle
    /\ RingIdle

UNext ==
    \E kind \in Kinds, id \in UpdateIds :
        \E partial \in Partials(kind) : UpdateOnce(kind, id, partial)

SpecUpdate == UInit /\ [][UNext]_vars

(* ---------------------------- search zone ------------------------------ *)
(* isLocationInSearchZone and the two loops that call it.  Coordinates are  *)
(* whole numbers of grid steps.  A distance is carried as its square in     *)
(* grid steps, which orders distances as the distances themselves are       *)
(* ordered; the search distance is squared where it is compared.            *)

\* longest path explored
MaxPath == 3
\* largest search distance explored, in grid steps
MaxRadius == 2
\* largest coordinate of the grid
GridMax == 8

Point(lat, lon) == [lat |-> lat, lon |-> lon]
Squared(x) == x * x

\* haversineDistance(point1, point2), squared, in grid steps
haversineDistance(point1, point2) ==
    Squared(point2.lat - point1.lat) + Squared(point2.lon - point1.lon)

\* Math.min of a list of numbers
RECURSIVE MathMin(_)
MathMin(distances) ==
    IF Len(distances) = 1 THEN distances[1]
    ELSE LET rest == MathMin(Tail(distances))
         IN  IF distances[1] <= rest THEN distances[1] ELSE rest

\* distancePointToSegment(point, segStart, segEnd): the least of the distances
\* to the start, to the end and to the midpoint
distancePointToSegment(point, segStart, segEnd) ==
    LET mid == Point((segStart.lat + segEnd.lat) \div 2,
                     (segStart.lon + segEnd.lon) \div 2)
    IN  MathMin(<<haversineDistance(point, segStart),
                  haversineDistance(point, segEnd),
                  haversineDistance(point, mid)>>)

\* the exterior ring of a polygon value, or <<>> when pointInPolygon finds none
Exterior(polygon) ==
    LET coords == IF polygon.type = "Polygon" THEN polygon.coordinates
                  ELSE polygon.geometry.coordinates
    IN  IF coords = <<>> THEN <<>> ELSE coords[1]

\* one step of the ray casting loop: the edge between exterior[i] and
\* exterior[j] crosses the ray from (x, y).  The quotient of the source is
\* compared exactly, by multiplying both sides by yj - yi.
Intersect(x, y, pi, pj) ==
    LET xi == pi[1]
        yi == pi[2]
        xj == pj[1]
        yj == pj[2]
    IN  /\ (yi > y) # (yj > y)
        /\ IF yj - yi > 0
           THEN (x - xi) * (yj - yi) < (xj - xi) * (y - yi)
           ELSE (x - xi) * (yj - yi) > (xj - xi) * (y - yi)

RECURSIVE RayCast(_, _, _, _, _, _)
RayCast(x, y, exterior, i, j, isInside) ==
    IF i > Len(exterior) THEN isInside
    ELSE RayCast(x, y, exterior, i + 1, i,
                 IF Intersect(x, y, exterior[i], exterior[j])
                 THEN ~isInside ELSE isInside)

\* the loop started one edge late
pointInPolygon_SkipFirstEdge(point, polygon) ==
    IF Exterior(polygon) = <<>> THEN FALSE
    ELSE RayCast(point[1], point[2], Exterior(polygon), 2, 1, FALSE)

\* pointInPolygon(point, polygon), point being <<lon, lat>>
pointInPolygon(point, polygon) ==
    IF /\ polygon.type # "Polygon"
       /\ ~(polygon.type = "Feature" /\ polygon.geometry.type = "Polygon")
    THEN FALSE
    ELSE LET exterior == Exterior(polygon)
         IN  IF exterior = <<>> THEN FALSE
             ELSE RayCast(point[1], point[2], exterior, 1, Len(exterior), FALSE)

\* Infinity, the start value of minDist: above every distance on the grid
Infinity == 2 * Squared(GridMax) + 1

\* the last segment the loop visits, by the position of its start
\* (i < pathPoints.length - 1, counted from 0, in the source)
LastSegment_FirstOnly(path) == 1
LastSegment(path) == Len(path) - 1

\* the for loop of isLocationInSearchZone, from segment i on
RECURSIVE SegmentLoop(_, _, _, _)
SegmentLoop(resultCoords, path, i, minDist) ==
    IF i > LastSegment(path) THEN minDist
    ELSE SegmentLoop(resultCoords, path, i + 1,
             MathMin(<<minDist,
                       distancePointToSegment(resultCoords, path[i], path[i + 1])>>))

isLocationInSearchZone(resultCoords, path, distanceKm, polygon) ==
    IF polygon # NoPolygon
    THEN pointInPolygon(<<resultCoords.lon, resultCoords.lat>>, polygon)
    ELSE LET minDist ==
                 IF Len(path) = 1
                 THEN haversineDistance(resultCoords, path[1])
                 ELSE SegmentLoop(resultCoords, path, 1, Infinity)
         IN  minDist <= Squared(distanceKm)

\* the key of a location in results: `${name}_${lon}_${lat}`
ResultKey(name, lon, lat) == name \o "_" \o ToString(lon) \o "_" \o ToString(lat)

\* results.has(key)
ResultsHas_Never(res, key) == FALSE
ResultsHas(res, key) == \E i \in DOMAIN res : res[i].key = key

\* typeValue || undefined
OrUndefined(typeValue) == IF typeValue = "" THEN undefined ELSE typeValue

\* addLocationToResults: a location whose key the map holds is left as it is
addLocationToResults(res, name, lon, lat, typeValue) ==
    IF ResultsHas(res, ResultKey(name, lon, lat))
    THEN res
    ELSE Append(res, [key |-> ResultKey(name, lon, lat),
                      main |-> name,
                      secondary |-> OrUndefined(typeValue),
                      coordinates |-> Point(lat, lon),
                      type |-> OrUndefined(typeValue)])

(* inputs *)
\* the points a path is made of
PathPool == {Point(2, 2), Point(2, 6), Point(6, 6)}
Paths == UNION {[1..n -> PathPool] : n \in 0..MaxPath}
Radii == 1..MaxRadius

\* an element of the response; type is what getTypeValueFromElement finds in
\* its tags, "" when it has none of them
Element(tag, name, lat, lon, center) ==
    [tag |-> tag, name |-> name, lat |-> lat, lon |-> lon, center |-> center,
     type |-> ""]
Tagged(element, typeValue) == [element EXCEPT !.type = typeValue]
\* the response document: its nodes, then its ways.  An element without a
\* name tag has name "", one without a lat (lon) attribute has lat (lon) 0, a way may
\* have no center.  The feature A is there as two nodes and as a way, a
\* second feature of that name lies elsewhere, and the feature B_3 at (4, 7)
\* has a name that reads like the start of the key of B at (3, 4).
Document ==
    <<Tagged(Element("node", "A", 2, 4, TRUE), "village"),
      Element("node", "B", 3, 4, TRUE),
      Element("node", "C", 4, 7, TRUE), Element("node", "D", 8, 1, TRUE),
      Element("node", "", 2, 2, TRUE), Element("node", "E", 0, 4, TRUE),
      Element("node", "K", 2, 0, TRUE), Element("node", "H", 4, 2, TRUE),
      Tagged(Element("node", "A", 2, 4, TRUE), "hamlet"),
      Tagged(Element("node", "A", 3, 4, TRUE), "peak"),
      Tagged(Element("node", "B_3", 4, 7, TRUE), "town"),
      Element("way", "F", 6, 5, TRUE), Element("way", "G", 2, 6, FALSE),
      Element("way", "J", 3, 3, TRUE),
      Tagged(Element("way", "A", 2, 4, TRUE), "town"),
      Tagged(Element("way", "C", 4, 7, TRUE), "city")>>

\* rings are closed and counterclockwise, positions are <<lon, lat>>
Rectangle == <<<<3, 1>>, <<8, 1>>, <<8, 5>>, <<3, 5>>, <<3, 1>>>>
Triangle == <<<<1, 1>>, <<7, 1>>, <<1, 7>>, <<1, 1>>>>
GeoPolygon(ring) ==
    [type |-> "Polygon", coordinates |-> <<ring>>, geometry |-> NoGeometry]
GeoFeature(geometryType, ring) ==
    [type |-> "Feature", coordinates |-> <<>>,
     geometry |-> [type |-> geometryType, coordinates |-> <<ring>>]]
BufferPolygons ==
    {NoPolygon, GeoPolygon(Rectangle), GeoPolygon(Triangle),
     GeoFeature("Polygon", Rectangle), GeoFeature("LineString", Rectangle),
     [type |-> "Polygon", coordinates |-> <<>>, geometry |-> NoGeometry]}

\* the body of the loops of processXmlNodes and processXmlWays for one element
Processed_Unnamed(res, element) ==
    IF isLocationInSearchZone(Point(element.lat, element.lon),
                              pathPoints, searchDistanceKm, bufferPolygon)
    THEN addLocationToResults(res, element.name, element.lon, element.lat,
                              element.type)
    ELSE res
Processed(res, element) ==
    IF /\ element.name # "" /\ element.lat # 0 /\ element.lon # 0
       /\ isLocationInSearchZone(Point(element.lat, element.lon),
                                 pathPoints, searchDistanceKm, bufferPolygon)
    THEN addLocationToResults(res, element.name, element.lon, element.lat,
                              element.type)
    ELSE res
ProcessElement(element) == results' = Processed(results, element)

\* processXmlNodes, at the next node of the document
ProcessXmlNodes ==
    /\ Len(pathPoints) # 0
    /\ cursor < Len(Document)
    /\ Document[cursor + 1].tag = "node"
    /\ ProcessElement(Document[cursor + 1])
    /\ cursor' = cursor + 1
    /\ UNCHANGED <<pathPoints, searchDistanceKm, bufferPolygon, resultArray>>
    /\ UNCHANGED <<qvars, evars, svars, pvars>>

\* processXmlWays, at the next way of the document: a way without a center
\* is passed over
ProcessXmlWays ==
    /\ Len(pathPoints) # 0
    /\ cursor < Len(Document)
    /\ Document[cursor + 1].tag = "way"
    /\ IF Document[cursor + 1].center
       THEN ProcessElement(Document[cursor + 1])
       ELSE UNCHANGED results
    /\ cursor' = cursor + 1
    /\ UNCHANGED <<pathPoints, searchDistanceKm, bufferPolygon, resultArray>>
    /\ UNCHANGED <<qvars, evars, svars, pvars>>

\* searchLocationsNearPath called with a path, a distance and a buffer polygon
ZInit ==
    /\ QueueInit /\ ElevIdle /\ StoreStart /\ RingIdle
    /\ pathPoints \in Paths
    /\ searchDistanceKm \in Radii
    /\ bufferPolygon \in BufferPolygons
    /\ results = <<>>
    /\ cursor = 0
    /\ resultArray = <<>>

ZNext ==
    \/ ProcessXmlNodes
    \/ ProcessXmlWays

SpecZone == ZInit /\ [][ZNext]_vars

(* --------------------- searchLocationsNearPath ------------------------ *)
(* One call of searchLocationsNearPath from its call to its return: the   *)
(* request that goes through the queue, the response read and filtered,   *)
(* the elevations fetched and attached.                                   *)

\* a grid position in 1e-7 degree, a grid step being a hundredth of a degree
Degrees(p) == [lat |-> p.lat * 100000, lon |-> p.lon * 100000]

\* processXmlNodes and then processXmlWays over the whole document, from its
\* k-th element on: a way without a center is passed over
RECURSIVE ProcessDocument(_, _)
ProcessDocument(res, k) ==
    IF k > Len(Document) THEN res
    ELSE ProcessDocument(IF Document[k].tag = "way" /\ ~Document[k].center
                         THEN res
                         ELSE Processed(res, Document[k]),
                         k + 1)

\* Array.from(results.values())
ResultValues(res) ==
    [i \in DOMAIN res |-> [main |-> res[i].main, secondary |-> res[i].secondary,
                           coordinates |-> res[i].coordinates,
                           type |-> res[i].type]]

\* how reading the response can end: response.text() or the parser throws,
\* the parser gives a parsererror document, or it gives the document
ReadOutcomes == {"throws", "parsererror", "document"}

\* the results map after the loop over the settled responses
ResultsRead_Always(outcome) == ProcessDocument(<<>>, 1)
ResultsRead(outcome) ==
    IF outcome = "document" THEN ProcessDocument(<<>>, 1) ELSE <<>>

\* the loop that attaches the elevations, for one result: the first of its
\* three keys that elevationMap has gives the elevation; a result without
\* one is left as it is
WithElevation_OrZero(result, map) ==
    LET keys == ResultKeys(Degrees(result.coordinates))
        f == FoundKeyIndex(keys, map)
    IN  [x \in (DOMAIN result) \cup {"elevation"} |->
            IF x # "elevation" THEN result[x]
            ELSE IF f = 0 THEN 0 ELSE map[keys[f]]]
WithElevation(result, map) ==
    LET keys == ResultKeys(Degrees(result.coordinates))
        f == FoundKeyIndex(keys, map)
    IN  IF f = 0 THEN result
        ELSE [x \in (DOMAIN result) \cup {"elevation"} |->
                 IF x = "elevation" THEN map[keys[f]] ELSE result[x]]

\* the awaited add() promise rejected: the search rejects
SearchAddRejected ==
    /\ search[1].pc = "awaitAdd"
    /\ promise[search[1].task].st = "rejected"
    /\ search' = [search EXCEPT ![1].pc = OnAddRejected]
    /\ UNCHANGED <<now, queue, isProcessing, lastRequestTime, resolveStack,
                   rejectStack, loops, promise, nAdded, sent, addr>>
    /\ UNCHANGED <<evars, svars, zvars, pvars>>

\* the awaited add() promise gave the response: the search reads it, filters
\* its elements into results and, with a result, calls fetchElevations, which
\* runs up to its first request; without a result it returns the empty list
SearchRead(outcome) ==
    /\ search[1].pc = "awaitAdd"
    /\ promise[search[1].task].st = "fulfilled"
    /\ LET res == ResultsRead(outcome)
           array == ResultValues(res)
           coords == [i \in DOMAIN array |-> Degrees(array[i].coordinates)]
       IN  /\ results' = res
           /\ cursor' = IF outcome = "document" THEN Len(Document) ELSE 0
           /\ resultArray' = array
           /\ IF Len(array) > 0
              THEN /\ coordinates' = coords
                   /\ coordIndex' = BuildCoordIndex(coords, 1, <<>>)
                   /\ SetE(CallFetchWithRetry([EState EXCEPT !.epc = "running"],
                                              1, Len(coords), 0))
                   /\ search' = [search EXCEPT ![1].pc = "elev"]
              ELSE /\ UNCHANGED <<coordinates, coordIndex, estack, epc, reqs>>
                   /\ search' = [search EXCEPT ![1].pc = "returned"]
    /\ UNCHANGED <<elevationMap, lastOut, carried, echoed>>
    /\ UNCHANGED <<now, queue, isProcessing, lastRequestTime, resolveStack,
                   rejectStack, loops, promise, nAdded, sent, addr>>
    /\ UNCHANGED <<pathPoints, searchDistanceKm, bufferPolygon>>
    /\ UNCHANGED <<svars, pvars>>

\* fetchElevations has returned its map: the search attaches the elevations
\* and returns resultArray
SearchReturn ==
    /\ search[1].pc = "elev"
    /\ epc = "returned"
    /\ resultArray' = [i \in DOMAIN resultArray |->
                          WithElevation(resultArray[i], elevationMap)]
    /\ search' = [search EXCEPT ![1].pc = "returned"]
    /\ UNCHANGED <<now, queue, isProcessing, lastRequestTime, resolveStack,
                   rejectStack, loops, promise, nAdded, sent, addr>>
    /\ UNCHANGED <<pathPoints, searchDistanceKm, bufferPolygon, results, cursor>>
    /\ UNCHANGED <<evars, svars, pvars>>

(* inputs *)
\* the paths of a search: none, and the paths along the pool from its first point
SearchPaths ==
    {path \in Paths : \A i \in DOMAIN path :
                         path[i] = <<Point(2, 2), Point(2, 6), Point(6, 6)>>[((i - 1) % 3) + 1]}
SearchPolygons == {NoPolygon, GeoPolygon(Rectangle)}
\* the elevations a response to a search may carry: null, 10.5 m
SearchElevations == {[isNull |-> TRUE, v |-> 0], [isNull |-> FALSE, v |-> 105]}
\* how an elevation request of a search may end, a 413 apart
SearchOutcomes == {"status", "ok"}
\* the results an elevation response may carry: the coordinates asked for,
\* with or without an elevation
SearchTriples ==
    {[ok |-> TRUE, lat |-> coordinates[i].lat, lon |-> coordinates[i].lon,
      elevation |-> e] : i \in DOMAIN coordinates, e \in SearchElevations}
\* the request for the whole list is the only one sent so far: the one
\* request the provider may find too large
WholeListAsked == Len(reqs) = 1

XInit ==
    /\ QueueInit /\ ElevIdle /\ StoreStart /\ RingIdle
    /\ pathPoints \in SearchPaths
    /\ searchDistanceKm \in Radii
    /\ bufferPolygon \in SearchPolygons
    /\ results = <<>>
    /\ cursor = 0
    /\ resultArray = <<>>

XNext ==
    \/ SearchCall(1, Len(pathPoints))
    \/ \E kind \in {"ok", "err"} : TaskSettle(1, kind)
    \/ LoopResume(1)
    \/ SearchAddRejected
    \/ \E outcome \in ReadOutcomes : SearchRead(outcome)
    \/ \E o \in SearchOutcomes : ElevRespond(o)
    \/ WholeListAsked /\ ElevRespond("413")
    \/ \E r \in SearchTriples : ElevResult(r)
    \/ ElevResultsEnd
    \/ SearchReturn

SpecSearch == XInit /\ [][XNext]_vars

(* --------------------------- pointInPolygon --------------------------- *)
\* most vertices of a ring explored
MaxRing == 4
\* largest coordinate of a query point
MaxQuery == 3

\* the ring with its first vertex repeated at the end
Closed(exterior) == IF exterior = <<>> THEN exterior ELSE Append(exterior, exterior[1])

\* the vertices rings are made of, and the rings
Vertices == {<<0, 0>>, <<0, 2>>, <<2, 2>>, <<2, 0>>, <<1, 3>>}
Rings == UNION {[1..n -> Vertices] : n \in 0..MaxRing}
Queries == (0..MaxQuery) \X (0..MaxQuery)

\* pointInPolygon(query, polygon) for the polygon of the ring as given
AskOpen ==
    /\ "open" \notin DOMAIN answers
    /\ answers' = MapSet(answers, "open", pointInPolygon(query, GeoPolygon(exteriorRing)))
    /\ UNCHANGED <<exteriorRing, query>>
    /\ UNCHANGED <<qvars, evars, svars, zvars>>

\* pointInPolygon(query, polygon) for the polygon of the closed ring
AskClosed ==
    /\ "closed" \notin DOMAIN answers
    /\ answers' = MapSet(answers, "closed",
                         pointInPolygon(query, GeoPolygon(Closed(exteriorRing))))
    /\ UNCHANGED <<exteriorRing, query>>
    /\ UNCHANGED <<qvars, evars, svars, zvars>>

PInit ==
    /\ QueueInit /\ ElevIdle /\ StoreStart /\ ZoneIdle
    /\ exteriorRing \in Rings
    /\ query \in Queries
    /\ answers = <<>>

PNext == AskOpen \/ AskClosed

SpecRing == PInit /\ [][PNext]_vars

(* ----------------------- derived observations ------------------------- *)
\* the processQueue() invocations that have not run to their end
LiveLoops == {i \in DOMAIN loops : loops[i].pc \in {"delay", "request", "resume"}}
\* the tasks that have started and not yet settled
TasksInFlight == {i \in DOMAIN loops : loops[i].pc \in {"delay", "request"}}
\* provider requests on the wire that never went through the RequestQueue
DirectInFlight ==
    Cardinality({s \in Searches : search[s].pc = "elev"})
        + (IF addr.pc = "fetching" THEN 1 ELSE 0)
\* provider requests on the wire that the RequestQueue dispatched
QueuedInFlight == Cardinality({i \in DOMAIN loops : loops[i].pc = "request"})
InQueue(t) == \E k \in DOMAIN queue : queue[k] = t
Current(t) == \E i \in LiveLoops : loops[i].pc # "resume" /\ loops[i].task = t
Settled(t) == promise[t].st \in {"fulfilled", "rejected"}

(* ------------------------------ claims -------------------------------- *)
\* C1: searchLocationsNearPath never raises to its caller because of a
\* provider failure: no search ever ends by throwing.
C1_SearchNeverRaises == \A s \in Searches : search[s].pc # "threw"

\* C2: tasks are dispatched strictly in submission order: the dispatched
\* requests are in add() order, a task that has started and waits for its
\* delay was submitted after every dispatched one, and every task still in the
\* queue was submitted after every task that has started.
C2_FifoDispatch ==
    /\ \A i, j \in DOMAIN sent : i < j => sent[i].task < sent[j].task
    /\ \A i \in DOMAIN loops : loops[i].pc = "delay" =>
          \A j \in DOMAIN sent : sent[j].task < loops[i].task
    /\ \A k \in DOMAIN queue :
          /\ \A j \in DOMAIN sent : sent[j].task < queue[k]
          /\ \A i \in TasksInFlight : loops[i].task < queue[k]
          /\ \A m \in DOMAIN queue : k < m => queue[k] < queue[m]

\* three tasks dispatched, the second taken while the third was waiting behind it
C2_Witness == Len(sent) >= 3 /\ sent[2].left >= 1

\* C3: at most one drain loop is active and at most one task is in flight, and
\* the processing flag is set exactly while a loop is active.
C3_SingleLoop ==
    /\ Len(loops) <= 1
    /\ Cardinality(TasksInFlight) <= 1
    /\ isProcessing <=> Len(loops) = 1

\* an add() was made while the loop awaited a task, and another one while the
\* loop was about to resume after the previous task settled
C3_Witness ==
    /\ Len(loops) = 1 /\ loops[1].pc = "resume"
    /\ Len(queue) >= 2 /\ Len(sent) >= 1

\* C4: at least minDelayMs elapses between consecutive dispatches, so N
\* dispatches take at least (N-1) x minDelayMs from the first to the last.
C4_MinSpacing ==
    /\ \A i \in DOMAIN sent : i > 1 => sent[i].at - sent[i - 1].at >= minDelayMs
    /\ Len(sent) >= 1 =>
          sent[Len(sent)].at - sent[1].at >= (Len(sent) - 1) * minDelayMs

\* three dispatches, the second one held back by the timer and no longer
C4_Witness ==
    /\ Len(sent) >= 3
    /\ sent[2].at - sent[1].at < minDelayMs + TickMs

\* C5: the promise returned by add() settles with its own task's outcome, and
\* the resolver and rejecter lists stay in step with the task queue.
C5_OwnOutcome ==
    /\ \A p \in TaskIds : Settled(p) => promise[p].of = p
    /\ \A i \in TasksInFlight : loops[i].res = loops[i].task /\ loops[i].rej = loops[i].task
    /\ resolveStack = queue
    /\ rejectStack = queue

\* three promises settled, with successes and a failure mixed, the second task
\* having started while the third was queued behind it
C5_Witness ==
    /\ Len(sent) >= 3 /\ sent[2].left >= 1
    /\ promise[1].st = "fulfilled" /\ promise[2].st = "rejected"
    /\ promise[3].st = "fulfilled"

\* C6: a failing task affects only its own promise: once some task has
\* rejected, no submitted task is lost (each is queued, running, or settled
\* with its own outcome), the queued ones are still in submission order and a
\* live loop is there to dispatch them.
C6_FailureIsolated ==
    (\E p \in TaskIds : promise[p].st = "rejected") =>
        /\ \A t \in 1..nAdded :
              \/ InQueue(t)
              \/ Current(t)
              \/ Settled(t) /\ promise[t].of = t
        /\ Len(queue) > 0 => LiveLoops # {}
        /\ \A k, m \in DOMAIN queue : k < m => queue[k] < queue[m]

\* the first task failed while two were queued behind it; both were dispatched
\* afterwards and settled with their own outcome
C6_Witness ==
    /\ Len(sent) >= 3 /\ sent[2].left >= 1
    /\ promise[1].st = "rejected"
    /\ promise[2].st = "fulfilled" /\ promise[2].of = 2
    /\ promise[3].st = "fulfilled" /\ promise[3].of = 3

\* C7: every outbound provider call goes through the shared RequestQueue, so
\* no provider request is on the wire that the queue did not dispatch and no
\* two provider requests are on the wire at once.
C7_AllProviderCallsQueued ==
    /\ DirectInFlight = 0
    /\ QueuedInFlight + DirectInFlight <= 1
\* the most requests a depth-bounded binary splitting can send: 2^5 - 1
MaxRequests == 2 ^ MaxIterations - 1
InputKeys == {Key6(coordinates[i]) : i \in DOMAIN coordinates}

\* C8: against a provider that answers 413 to everything, fetchElevations
\* never sends more than 31 requests and none at depth 5 or deeper, and it
\* terminates, returning an empty map.
C8_BoundedSplitting ==
    /\ [](/\ Len(reqs) <= MaxRequests
          /\ \A i \in DOMAIN reqs : reqs[i].it < MaxIterations
          /\ Len(estack) <= MaxIterations
          /\ epc = "returned" => elevationMap = <<>> /\ estack = <<>>)
    /\ <>(epc = "returned")

\* a batch of 16 or more coordinates, answered 413 throughout: 31 requests
C8_Witness ==
    /\ epc = "returned" /\ lastOut = "413"
    /\ Len(coordinates) >= 16 /\ Len(reqs) = MaxRequests

\* C9: fetchElevations never rejects, whatever its sub-requests come back
\* with, and it is never left with no request outstanding and no result.
C9_NeverRejects ==
    /\ epc # "rejected"
    /\ Len(estack) = 0 => epc \in {"idle", "returned"}

\* a split whose first half gave an elevation and whose last request threw:
\* the call still returns, with a partial map
C9_Witness ==
    /\ epc = "returned" /\ lastOut = "throw"
    /\ Len(reqs) >= 3 /\ elevationMap # <<>>
    /\ \E k \in InputKeys : k \notin DOMAIN elevationMap

\* C10: every entry of the map is justified by a successful response: its key
\* is the 6-decimal key of an input coordinate and its value is the rounded
\* non-null elevation of a result that matches that coordinate.
C10_OnlyJustifiedEntries ==
    \A key \in DOMAIN elevationMap :
        /\ key \in InputKeys
        /\ <<key, elevationMap[key]>> \in carried

\* after a split, one coordinate has an entry and another has none
C10_Witness ==
    /\ epc = "returned" /\ Len(reqs) >= 3
    /\ elevationMap # <<>>
    /\ \E k \in InputKeys : k \notin DOMAIN elevationMap

\* C11: a successful response that echoes an input coordinate at another
\* rounding precision (6 decimals, or 5 decimals) with an elevation still
\* gives that input an entry in the map.
C11_EchoCorrelated == \A key \in echoed : key \in DOMAIN elevationMap

(* the layers store, observed *)
\* the stored elements of a type and id
ElementsOf(kind, id) ==
    IF kind \in Kinds
    THEN {i \in DOMAIN DState[CollectionOf(kind)] :
             DState[CollectionOf(kind)][i].id = id}
    ELSE {}
\* the note links to a stored element
LinksStored(note) == ElementsOf(note.linkedElementType, note.linkedElementId) # {}
NoteIdsStored == {notes[n].id : n \in DOMAIN notes}
\* the notes that link to the element
NotesLinking(kind, id) ==
    {n \in DOMAIN notes :
        notes[n].linkedElementType = kind /\ notes[n].linkedElementId = id}
HasHandle(kind, id) == HandleKey(kind, id) \in DOMAIN leafletIdMap
HasLiveLayer(kind, id) == \E l \in layers : l.kind = kind /\ l.id = id

\* C12: invariant I1: the element a note links to carries that note's id as
\* its noteId, and no two notes link to the same stored element.
C12_BidirectionalLink ==
    /\ \A n \in DOMAIN notes :
          \A i \in ElementsOf(notes[n].linkedElementType, notes[n].linkedElementId) :
              DState[CollectionOf(notes[n].linkedElementType)][i].noteId = notes[n].id
    /\ \A m, n \in DOMAIN notes :
          (/\ m # n
           /\ notes[m].linkedElementType = notes[n].linkedElementType
           /\ notes[m].linkedElementId = notes[n].linkedElementId)
              => ~LinksStored(notes[m])

\* the call attaches note b to the element (kind, id): addNote of a new note
\* linked to it, or updateNote giving a stored note this link in place of
\* another
Attaches(b, kind, id) ==
    \/ /\ b \notin NoteIdsStored
       /\ DState' = addNote(DState, NewNote(b, kind, id))
    \/ /\ FindIndex(notes, b) # 0
       /\ \/ notes[FindIndex(notes, b)].linkedElementType # kind
          \/ notes[FindIndex(notes, b)].linkedElementId # id
       /\ DState' = updateNote(DState, b, [linkedElementType |-> kind,
                                           linkedElementId |-> id])

\* C13: attaching note B to an element whose noteId is another note A
\* overwrites: afterwards the element's noteId is B, B is stored, and A is
\* stored if it was.
C13_OverwriteOnRelink ==
    [][\A b \in NoteIds, kind \in Kinds, id \in Ids :
          (/\ Attaches(b, kind, id)
           /\ getElement(DState, kind, id) # 0
           /\ Truthy(DState[CollectionOf(kind)][getElement(DState, kind, id)].noteId)
           /\ DState[CollectionOf(kind)][getElement(DState, kind, id)].noteId # b)
          => /\ DState'[CollectionOf(kind)][getElement(DState, kind, id)].noteId = b
             /\ b \in NoteIdsStored'
             /\ DState[CollectionOf(kind)][getElement(DState, kind, id)].noteId
                   \in NoteIdsStored
                 => DState[CollectionOf(kind)][getElement(DState, kind, id)].noteId
                       \in NoteIdsStored']_vars

\* an element whose noteId is the later of two stored notes that both link
\* to it
C13_Witness ==
    \E kind \in Kinds, id \in Ids :
        /\ getElement(DState, kind, id) # 0
        /\ Cardinality(NotesLinking(kind, id)) = 2
        /\ \E n \in NotesLinking(kind, id) :
              /\ \A m \in NotesLinking(kind, id) : m <= n
              /\ DState[CollectionOf(kind)][getElement(DState, kind, id)].noteId
                    = notes[n].id

\* C14: invariant I2: the handle table has an entry for (kind, id) exactly
\* when a layer of that element is on the map.
C14_HandleCorrelation ==
    \A kind \in Kinds, id \in Ids : HasHandle(kind, id) <=> HasLiveLayer(kind, id)

\* C15: deleteElement of a stored element leaves no element of that type and
\* id, no note linked to it and no handle for it.
C15_DeleteCascades ==
    [][\A kind \in Kinds, id \in Ids :
          (Stored(kind, id) /\ DState' = deleteElement(DState, kind, id))
          => /\ ElementsOf(kind, id)' = {}
             /\ NotesLinking(kind, id)' = {}
             /\ ~HasHandle(kind, id)']_vars

\* the records of a list that pass validation, by position
Passes(field, record) ==
    CASE field = "circles" -> validateCircle(record)
      [] field = "lineSegments" -> validateLineSegment(record)
      [] field = "points" -> validatePoint(record)
      [] field = "notes" -> validateNote(record)
PassingPositions(field, items) == {i \in DOMAIN items : Passes(field, items[i])}
\* out is items without the records that fail validation, in the order of items
IsFiltered(field, out, items) ==
    /\ Len(out) = Cardinality(PassingPositions(field, items))
    /\ \A j \in DOMAIN out :
          \E i \in PassingPositions(field, items) :
              /\ Cardinality({k \in PassingPositions(field, items) : k <= i}) = j
              /\ out[j] = items[i]
LoadFields == {"circles", "lineSegments", "points", "notes"}
\* the store holds exactly the validated data and nothing else
HoldsValidated(d, data) ==
    /\ \A f \in LoadFields : IsFiltered(f, d[f], OrEmpty(data[f]))
    /\ d.leafletIdMap = <<>>

\* C16: loadLayers of data whose collections are lists (or absent) ends
\* normally, and the store then holds, per collection, exactly the records
\* that pass validation, in input order.
C16_FiltersRecordByRecord ==
    (/\ lastOp.op = "loadLayers"
     /\ \A f \in LoadFields : lastOp.data[f].shape # "nonlist")
        => /\ ~lastOp.threw
           /\ \A f \in LoadFields : IsFiltered(f, DState[f], OrEmpty(lastOp.data[f]))

\* two circles loaded, the first with a negative radius: the second is the
\* one circle of the store
C16_Witness ==
    /\ lastOp.op = "loadLayers"
    /\ lastOp.data.circles.shape = "list"
    /\ Len(lastOp.data.circles.items) = 2
    /\ lastOp.data.circles.items[1].radius = "neg"
    /\ circles = <<NewCircle("a", 0)>>
    /\ Len(points) = 1

Finite(v) == v \in {"pos", "zero", "neg"}
FiniteLatLon(c) == c.present /\ Finite(c.lat) /\ Finite(c.lon)
\* C17: after loadLayers every stored circle, line segment and point has its
\* required fields, finite numbers in its geometry, and, a circle, a radius
\* above zero.
C17_AcceptedAreValid ==
    lastOp.op = "loadLayers" =>
        /\ \A i \in DOMAIN circles :
              /\ TypeofString(circles[i].id) /\ TypeofString(circles[i].name)
              /\ FiniteLatLon(circles[i].center)
              /\ circles[i].radius = "pos"
        /\ \A i \in DOMAIN lineSegments :
              /\ TypeofString(lineSegments[i].id) /\ TypeofString(lineSegments[i].name)
              /\ FiniteLatLon(lineSegments[i].center)
              /\ Truthy(lineSegments[i].mode)
              /\ IF lineSegments[i].mode = "parallel"
                 THEN Finite(lineSegments[i].longitude)
                 ELSE FiniteLatLon(lineSegments[i].endpoint)
        /\ \A i \in DOMAIN points :
              /\ TypeofString(points[i].id) /\ TypeofString(points[i].name)
              /\ FiniteLatLon(points[i].coordinates)

\* C18: loadLayers replaces the store atomically: when the call has ended the
\* store holds exactly the validated data, or, the call having thrown, what
\* it held before.
C18_AtomicReplace ==
    [][lastOp'.op = "loadLayers" =>
          IF lastOp'.threw
          THEN /\ circles' = circles /\ lineSegments' = lineSegments
               /\ points' = points /\ notes' = notes
               /\ leafletIdMap' = leafletIdMap
          ELSE HoldsValidated(DState', lastOp'.data)]_vars

\* C19: getLeafletId(kind, id) is the handle last stored for exactly that
\* type and id and not deleted since, whatever was stored or deleted for
\* other types and ids.
C19_KeyedByKindAndId ==
    \A kind \in Kinds, id \in Ids :
        getLeafletId(DState, kind, id) =
            IF <<kind, id>> \in DOMAIN handles THEN handles[<<kind, id>>] ELSE 0

\* a circle and a point of the same id, each with its own handle, the
\* circle's stored again after the point's
C19_Witness ==
    \E id \in Ids :
        /\ <<"circle", id>> \in DOMAIN handles
        /\ <<"point", id>> \in DOMAIN handles
        /\ handles[<<"circle", id>>] > handles[<<"point", id>>]
        /\ getLeafletId(DState, "point", id) = handles[<<"point", id>>]

(* the search zone, observed *)
\* the elements processed so far that carry a name, a lat and a lon
Candidates ==
    {e \in {Document[k] : k \in 1..cursor} :
        /\ e.name # "" /\ e.lat # 0 /\ e.lon # 0
        /\ e.center}
InResults(e) ==
    \E i \in DOMAIN results :
        results[i].main = e.name /\ results[i].coordinates = Point(e.lat, e.lon)
\* the position is strictly inside (strictly outside) a closed counterclockwise
\* convex ring: left of every edge (right of some edge)
Cross(ring, k, x, y) ==
    (ring[k + 1][1] - ring[k][1]) * (y - ring[k][2])
        - (ring[k + 1][2] - ring[k][2]) * (x - ring[k][1])
StrictlyInside(ring, x, y) == \A k \in 1..(Len(ring) - 1) : Cross(ring, k, x, y) > 0
StrictlyOutside(ring, x, y) == \E k \in 1..(Len(ring) - 1) : Cross(ring, k, x, y) < 0
\* the buffer polygon is a polygon with an exterior ring
IsPolygon ==
    /\ bufferPolygon # NoPolygon
    /\ bufferPolygon.type = "Polygon" \/ bufferPolygon.geometry.type = "Polygon"
    /\ Exterior(bufferPolygon) # <<>>
\* the acceptance predicate, as stated
AcceptanceByPolygon(e) ==
    /\ IsPolygon
    /\ pointInPolygon(<<e.lon, e.lat>>, bufferPolygon)
    /\ ~StrictlyOutside(Exterior(bufferPolygon), e.lon, e.lat)
AcceptanceByPath(e) ==
    IF Len(pathPoints) = 1
    THEN haversineDistance(Point(e.lat, e.lon), pathPoints[1])
            <= Squared(searchDistanceKm)
    ELSE \E k \in 1..(Len(pathPoints) - 1) :
            distancePointToSegment(Point(e.lat, e.lon),
                                   pathPoints[k], pathPoints[k + 1])
                <= Squared(searchDistanceKm)
Acceptance(e) ==
    IF bufferPolygon # NoPolygon THEN AcceptanceByPolygon(e) ELSE AcceptanceByPath(e)

\* C20: a processed candidate is in the result exactly when it satisfies the
\* acceptance predicate: with a buffer polygon, point-in-polygon alone (a
\* candidate strictly inside the ring is in, one strictly outside is out);
\* without one, distance to the single path point, or the least
\* point-to-segment distance over all consecutive pairs, within the search
\* distance.  Nothing else is in the result.
C20_AcceptancePredicate ==
    /\ \A e \in Candidates : InResults(e) <=> Acceptance(e)
    /\ \A e \in Candidates :
          (IsPolygon /\ StrictlyInside(Exterior(bufferPolygon), e.lon, e.lat))
              => InResults(e)
    /\ \A i \in DOMAIN results : \E e \in Candidates :
          /\ results[i].main = e.name
          /\ results[i].coordinates = Point(e.lat, e.lon)
          /\ Acceptance(e)

\* on a path of three points and without a polygon, the whole document
\* processed: a candidate beyond the search distance of the first segment is
\* in the result, and another candidate is not
C20_Witness ==
    /\ bufferPolygon = NoPolygon
    /\ Len(pathPoints) = 3
    /\ cursor = Len(Document)
    /\ \E e \in Candidates :
          /\ InResults(e)
          /\ distancePointToSegment(Point(e.lat, e.lon), pathPoints[1], pathPoints[2])
                > Squared(searchDistanceKm)
    /\ \E e \in Candidates : ~InResults(e)

\* the positions of the document, among those processed, of the candidates
\* with the name and coordinates of the result r
Occurrences(r) ==
    {k \in 1..cursor :
        /\ Document[k] \in Candidates
        /\ Document[k].name = r.main
        /\ Point(Document[k].lat, Document[k].lon) = r.coordinates}
\* C21: no two results have the same name, longitude and latitude, and a
\* result carries the classification of the first occurrence of its feature,
\* nodes coming before ways.
C21_Deduplicated ==
    /\ \A i, j \in DOMAIN results :
          (/\ results[i].main = results[j].main
           /\ results[i].coordinates = results[j].coordinates) => i = j
    /\ \A i \in DOMAIN results :
          \E k \in Occurrences(results[i]) :
              /\ \A m \in Occurrences(results[i]) : k <= m
              /\ results[i].type = OrUndefined(Document[k].type)
              /\ Document[k].tag = "way"
                    => \A m \in 1..cursor :
                          Document[m].tag = "node" => m \notin Occurrences(results[i])

\* the whole document processed: a feature that came as two nodes and as a
\* way is one result, with the classification of the first node
C21_Witness ==
    /\ cursor = Len(Document)
    /\ \E i \in DOMAIN results :
          /\ Cardinality(Occurrences(results[i])) = 3
          /\ results[i].type = "village"
          /\ \E k \in Occurrences(results[i]) : Document[k].tag = "way"

(* pointInPolygon, observed *)
Square == <<<<0, 0>>, <<0, 2>>, <<2, 2>>, <<2, 0>>>>
\* C22: pointInPolygon answers the same for a ring and for the ring with its
\* first vertex repeated at the end; the square (0,0), (0,2), (2,2), (2,0)
\* holds (1,1) and not (3,3).
C22_ClosingInvariant ==
    /\ DOMAIN answers = {"open", "closed"} => answers["open"] = answers["closed"]
    /\ \A k \in DOMAIN answers :
          exteriorRing = Square =>
              /\ query = <<1, 1>> => answers[k]
              /\ query = <<3, 3>> => ~answers[k]

\* both questions asked about the square and one of its inner points
C22_Witness ==
    /\ exteriorRing = Square
    /\ query = <<1, 1>>
    /\ DOMAIN answers = {"open", "closed"}
    /\ answers["open"] /\ answers["closed"]

\* C23: after clearLayers the circles, the line segments, the points, the
\* notes and the handle table are all empty.
C23_ClearEmptiesAll ==
    lastOp.op = "clearLayers" =>
        /\ circles = <<>> /\ lineSegments = <<>> /\ points = <<>>
        /\ notes = <<>>
        /\ leafletIdMap = <<>>

\* cleared after two layers were drawn and their handles stored
C23_Witness ==
    /\ lastOp.op = "clearLayers"
    /\ nextStamp >= 3
    /\ leafletIdMap = <<>>

\* C24: no two stored elements of one type have the same id.
C24_IdsUnique ==
    \A kind \in Kinds :
        \A i, j \in DOMAIN DState[CollectionOf(kind)] :
            DState[CollectionOf(kind)][i].id = DState[CollectionOf(kind)][j].id
                => i = j

\* C25: searchAddress throws to its caller only when the request to the
\* completion provider failed or was answered with a status that is not ok.
C25_AddressRaisesOnlyOnRequestFailure ==
    addr.pc = "threw" => addr.outcome \in {"neterr", "status"}

\* the noteId of the stored element of a type and id
NoteIdOf(d, kind, id) == d[CollectionOf(kind)][getElement(d, kind, id)].noteId
\* the noteId of every stored element but those listed is as it was
NoteIdsKeptBut(changing) ==
    \A kind \in Kinds :
        \A i \in DOMAIN DState[CollectionOf(kind)] :
            <<kind, i>> \notin changing
                => /\ i \in DOMAIN DState'[CollectionOf(kind)]
                   /\ DState'[CollectionOf(kind)][i].noteId
                         = DState[CollectionOf(kind)][i].noteId

\* C26: updateNote that moves note N's link from element X to element Y
\* clears X.noteId if it was N, sets Y.noteId to N and stores the new link,
\* leaving every other noteId alone; updateNote that keeps the link changes
\* no noteId.
C26_RelinkKeepsBothEnds ==
    [][\A n \in NoteIds, partial \in NotePartials :
          (FindIndex(notes, n) # 0 /\ DState' = updateNote(DState, n, partial)) =>
             LET index == FindIndex(notes, n)
                 old == notes[index]
                 new == Merge(old, partial)
                 x == getElement(DState, old.linkedElementType, old.linkedElementId)
                 y == getElement(DState, new.linkedElementType, new.linkedElementId)
             IN  /\ notes'[index].id = n
                 /\ notes'[index].linkedElementType = new.linkedElementType
                 /\ notes'[index].linkedElementId = new.linkedElementId
                 /\ IF /\ old.linkedElementType = new.linkedElementType
                       /\ old.linkedElementId = new.linkedElementId
                    THEN NoteIdsKeptBut({})
                    ELSE /\ y # 0 =>
                               NoteIdOf(DState', new.linkedElementType,
                                        new.linkedElementId) = n
                         /\ (/\ x # 0
                             /\ NoteIdOf(DState, old.linkedElementType,
                                         old.linkedElementId) = n)
                               => NoteIdOf(DState', old.linkedElementType,
                                           old.linkedElementId) = undefined
                         /\ NoteIdsKeptBut(
                               {<<old.linkedElementType, x>>,
                                <<new.linkedElementType, y>>})]_vars

\* a note moved from a stored element to a stored element of another type:
\* the first has no noteId, the second has the note's
C26_Witness ==
    /\ lastOp.op = "updateNote"
    /\ getElement(DState, lastOp.oldElementType, lastOp.oldElementId) # 0
    /\ NoteIdOf(DState, lastOp.oldElementType, lastOp.oldElementId) = undefined
    /\ \E i \in DOMAIN notes :
          /\ notes[i].id = lastOp.id
          /\ notes[i].linkedElementType # lastOp.oldElementType
          /\ getElement(DState, notes[i].linkedElementType, notes[i].linkedElementId) # 0
          /\ NoteIdOf(DState, notes[i].linkedElementType, notes[i].linkedElementId)
                = lastOp.id

\* C27: updateCircle, updateLineSegment, updatePoint(id, partial) change the
\* supplied fields of the one element of that id, where it stands, and
\* nothing else in the store; without such an element they change nothing.
C27_UpdateMergesInPlace ==
    [][lastOp'.op = "update" =>
          LET coll == CollectionOf(lastOp'.kind)
              partial == lastOp'.partial
              i == FindIndex(DState[coll], lastOp'.id)
          IN  IF i = 0 THEN DState' = DState
              ELSE /\ Len(DState'[coll]) = Len(DState[coll])
                   /\ \A j \in DOMAIN DState[coll] :
                         j # i => DState'[coll][j] = DState[coll][j]
                   /\ DOMAIN DState'[coll][i]
                         = (DOMAIN DState[coll][i]) \cup (DOMAIN partial)
                   /\ \A f \in DOMAIN partial : DState'[coll][i][f] = partial[f]
                   /\ \A f \in (DOMAIN DState[coll][i]) \ (DOMAIN partial) :
                         DState'[coll][i][f] = DState[coll][i][f]
                   /\ \A c \in {"circles", "lineSegments", "points", "notes",
                                 "leafletIdMap"} :
                         c # coll => DState'[c] = DState[c]]_vars

\* the second of two circles renamed: it is still the second, with its
\* radius and its handle, and the first circle has its note
C27_Witness ==
    /\ lastOp.op = "update"
    /\ lastOp.kind = "circle" /\ lastOp.id = "b"
    /\ Len(circles) = 2
    /\ circles[2] = [NewCircle("b", 2) EXCEPT !.name = "renamed"]
    /\ circles[1].noteId = "n1"
    /\ getLeafletId(DState, "circle", "b") = 2

(* the splitting, observed on the requests of a finished call *)
\* the requests sent after request i, one level deeper, for coordinates of
\* the batch of request i
ChildrenOf(i) ==
    {j \in DOMAIN reqs :
        /\ j > i
        /\ reqs[j].it = reqs[i].it + 1
        /\ reqs[j].lo >= reqs[i].lo
        /\ reqs[j].lo + reqs[j].n <= reqs[i].lo + reqs[i].n}
\* the batch of request i was requested again as its first ceil(n/2)
\* coordinates and then, unless none is left, as the remaining ones, and in
\* no other way
BothHalvesRequested(i) ==
    \E n1 \in 1..reqs[i].n :
        /\ 2 * n1 \in {reqs[i].n, reqs[i].n + 1}
        /\ \E a \in ChildrenOf(i) :
              /\ reqs[a].lo = reqs[i].lo
              /\ reqs[a].n = n1
              /\ IF reqs[i].n - n1 = 0
                 THEN ChildrenOf(i) = {a}
                 ELSE \E b \in ChildrenOf(i) :
                         /\ b > a
                         /\ reqs[b].lo = reqs[i].lo + n1
                         /\ reqs[b].n = reqs[i].n - n1
                         /\ ChildrenOf(i) = {a, b}
PayloadTooLarge == {i \in DOMAIN reqs : reqs[i].out = "413"}

\* C28, as stated: once the call has returned, every request answered 413 at
\* a depth below 5 was followed, one level deeper, by a request for the first
\* ceil(n/2) coordinates of its batch and by a request for the remaining
\* floor(n/2), if there are any, and by no other request for them.
C28_EveryHalfRetried ==
    epc = "returned" => \A i \in PayloadTooLarge : BothHalvesRequested(i)

\* C28, amended: that holds of every request answered 413 at a depth below 4;
\* a batch answered 413 at depth 4 is split too, but its halves are at the
\* depth bound and no request is sent for them, empty or not.
C28_HalvesRetriedBelowBound ==
    epc = "returned" =>
        \A i \in PayloadTooLarge :
            IF reqs[i].it < MaxIterations - 1
            THEN BothHalvesRequested(i)
            ELSE ChildrenOf(i) = {}

\* five coordinates, answered 413 throughout: the batch went out as 3 and 2,
\* a batch of one coordinate was retried alone, and a batch answered 413 at
\* depth 4 was dropped
C28_Witness ==
    /\ epc = "returned"
    /\ Len(coordinates) = 5
    /\ \E i \in PayloadTooLarge : \E a, b \in ChildrenOf(i) :
          reqs[i].n = 5 /\ reqs[a].n = 3 /\ reqs[b].n = 2 /\ reqs[b].lo = 4
    /\ \E i \in PayloadTooLarge : \E a \in DOMAIN reqs :
          reqs[i].n = 1 /\ reqs[i].it < MaxIterations - 1 /\ ChildrenOf(i) = {a}
    /\ \E i \in PayloadTooLarge :
          reqs[i].it = MaxIterations - 1 /\ ChildrenOf(i) = {}

\* request j is for a coordinate of the batch of request i
Overlap(i, j) ==
    /\ reqs[j].lo < reqs[i].lo + reqs[i].n
    /\ reqs[i].lo < reqs[j].lo + reqs[j].n
\* the requests that got a non-success status other than 413, or that threw
Abandoned == {i \in DOMAIN reqs : reqs[i].out = "abandoned"}

\* C29: a request that came back with a non-success status other than 413,
\* or that threw, is the last request of the call for any coordinate of its
\* batch: the batch is neither retried nor split.
C29_AbandonedWithoutRetry ==
    \A i \in Abandoned : \A j \in DOMAIN reqs : j > i => ~Overlap(i, j)

\* two coordinates split after a 413: the request for each half failed, the
\* last one with a non-success status, and the call returned after these
\* three requests
C29_Witness ==
    /\ epc = "returned"
    /\ Len(reqs) = 3
    /\ reqs[1].out = "413" /\ reqs[2].out = "abandoned" /\ reqs[3].out = "abandoned"
    /\ reqs[2].lo = 1 /\ reqs[3].lo = 2
    /\ lastOut = "status"

Waiting ==
    Len(queue) + Cardinality({i \in DOMAIN loops : loops[i].pc = "delay"})

\* C31: a search with a path of any length above zero has called add() once,
\* and the queue holds or has sent exactly that one request; a search with an
\* empty path has returned the empty list and nothing was handed to the
\* queue or sent to the elevation provider.
C31_OneQueuedRequest ==
    search[1].pc # "idle" =>
        IF Len(pathPoints) = 0
        THEN /\ search[1].pc = "returned"
             /\ resultArray = <<>>
             /\ nAdded = 0 /\ queue = <<>> /\ loops = <<>> /\ sent = <<>>
             /\ reqs = <<>> /\ epc = "idle"
        ELSE /\ nAdded = 1
             /\ Waiting + Len(sent) = 1
             /\ \A k \in DOMAIN sent : sent[k].task = search[1].task

\* a search along three points has returned, after one request through the
\* queue
C31_Witness ==
    /\ Len(pathPoints) = 3
    /\ search[1].pc = "returned"
    /\ nAdded = 1 /\ Len(sent) = 1 /\ queue = <<>>

\* C32: when response.text() or the parser throws, or the parser gives a
\* parsererror document, the search returns the empty list there and then,
\* and no elevation request is sent, then or later.
C32_UnparsedGivesEmpty ==
    /\ [][\A outcome \in {"throws", "parsererror"} :
             SearchRead(outcome) =>
                 /\ search'[1].pc = "returned"
                 /\ results' = <<>> /\ resultArray' = <<>>
                 /\ reqs' = <<>> /\ epc' = "idle"]_vars
    /\ [](search[1].pc = "returned" /\ cursor = 0 =>
              resultArray = <<>> /\ reqs = <<>> /\ epc = "idle")

\* the request was sent and answered, the answer could not be parsed, and
\* the search has returned; parsed, the document would have given results
C32_Witness ==
    /\ search[1].pc = "returned"
    /\ Len(sent) = 1
    /\ promise[search[1].task].st = "fulfilled"
    /\ cursor = 0
    /\ resultArray = <<>>
    /\ ProcessDocument(<<>>, 1) # <<>>

\* the places in the document of the accepted candidates, each named
\* position counted where it is first seen
FirstSeen ==
    {k \in 1..cursor :
        /\ Document[k] \in Candidates
        /\ Acceptance(Document[k])
        /\ \A j \in 1..(k - 1) :
              ~(/\ Document[j] \in Candidates
                /\ Document[j].name = Document[k].name
                /\ Document[j].lat = Document[k].lat
                /\ Document[j].lon = Document[k].lon)}
\* the elevation fetchElevations returned for a position, if any
ElevationKey(coords) == Key6(Degrees(coords))

\* C33: a search that read its document returns one result for each accepted
\* candidate, in the order in which they are first seen in the document and
\* whatever elevationMap holds; a result has an elevation exactly when
\* elevationMap has an entry for the 6-decimal key of its coordinates, and
\* then it is that entry.
C33_EnrichmentKeepsResults ==
    (search[1].pc = "returned" /\ cursor = Len(Document)) =>
        /\ Len(resultArray) = Cardinality(FirstSeen)
        /\ \A k \in FirstSeen :
              LET i == Cardinality({j \in FirstSeen : j <= k})
                  result == resultArray[i]
              IN  /\ result.main = Document[k].name
                  /\ result.coordinates = Point(Document[k].lat, Document[k].lon)
                  /\ "elevation" \in DOMAIN result
                        <=> ElevationKey(result.coordinates) \in DOMAIN elevationMap
                  /\ "elevation" \in DOMAIN result
                        => result.elevation
                              = elevationMap[ElevationKey(result.coordinates)]

\* a search has returned four results or more: the second has an elevation,
\* the first and the last have none
C33_Witness ==
    /\ search[1].pc = "returned"
    /\ Len(resultArray) >= 4
    /\ "elevation" \in DOMAIN resultArray[2]
    /\ "elevation" \notin DOMAIN resultArray[1]
    /\ "elevation" \notin DOMAIN resultArray[Len(resultArray)]

\* C34: every task handed to add() is sent in the end and its promise is
\* settled in the end, provided every task that is sent settles; a task
\* waits in the queue only while a processQueue() run is under way, and when
\* no run is under way the queue is empty and isProcessing is false, so the
\* next add() starts a run.
C34_QueueProgress ==
    /\ \A t \in TaskIds :
          (promise[t].st = "pending") ~> (\E k \in DOMAIN sent : sent[k].task = t)
    /\ \A t \in TaskIds :
          (promise[t].st = "pending") ~> (promise[t].st \in {"fulfilled", "rejected"})
    /\ [](Len(queue) > 0 => isProcessing /\ LiveLoops # {})
    /\ [](LiveLoops = {} => ~isProcessing /\ queue = <<>>)

\* three tasks were added, the last one sent more than minDelayMs after the
\* one before it; all three are settled, one of them rejected, and the run
\* has ended
C34_Witness ==
    /\ nAdded = MaxSearches
    /\ \A t \in TaskIds : promise[t].st \in {"fulfilled", "rejected"}
    /\ \E t \in TaskIds : promise[t].st = "rejected"
    /\ Len(sent) = MaxSearches
    /\ sent[Len(sent)].at > sent[Len(sent) - 1].at + minDelayMs
    /\ LiveLoops = {} /\ ~isProcessing /\ queue = <<>>

\* the elevation requests sent and not yet settled
Outstanding == {i \in DOMAIN reqs : reqs[i].out = "pending"}

\* C35: at most one elevation request is outstanding, and when a request is
\* sent every request sent before it has settled: the requests for the
\* second half of a split wait for all those of the first half.
C35_OneOutstanding ==
    /\ Cardinality(Outstanding) <= 1
    /\ \A j \in Outstanding : \A i \in 1..(j - 1) : reqs[i].out # "pending"
    /\ Outstanding # {} <=> (Len(estack) > 0 /\ estack[Len(estack)].pc = "fetch")

\* two coordinates split after a 413: the first half was split again and its
\* two requests have settled; the request for the second half is the only
\* one outstanding
C35_Witness ==
    /\ Len(reqs) = 4
    /\ reqs[1].out = "413" /\ reqs[1].n = 2
    /\ reqs[2].out = "413" /\ reqs[2].lo = 1 /\ reqs[2].it = 1
    /\ reqs[3].out = "answered" /\ reqs[3].lo = 1 /\ reqs[3].it = 2
    /\ reqs[4] = [lo |-> 2, n |-> 1, it |-> 1, out |-> "pending"]
    /\ Outstanding = {4}

\* the ids of the stored entities, collection by collection, in order
EntityIds ==
    [c \in {"circles", "lineSegments", "points"} |->
        [i \in DOMAIN DState[c] |-> DState[c][i].id]]

\* C36: a call of updateElementVisibility, for an element of any type and
\* either value of visible, leaves the store with the entities and the notes
\* it had: none is added and none is removed.
C36_VisibilityKeepsStore ==
    [][(\E kind \in Kinds, id \in Ids, visible \in BOOLEAN :
            UpdateElementVisibility(kind, id, visible))
          => (EntityIds' = EntityIds /\ notes' = notes)]_vars

\* C37: every stored entity for which the handle table has an entry has that
\* entry as its leafletId.
C37_HandleFieldAgrees ==
    \A kind \in Kinds : \A i \in DOMAIN DState[CollectionOf(kind)] :
        LET element == DState[CollectionOf(kind)][i]
            handle == getLeafletId(DState, kind, element.id)
        IN  handle # 0 => element.leafletId = handle

\* C38: deleteNote(id) takes the first note of that id out of the list and
\* leaves the other notes as they are and where they are; the one element the
\* note links to loses its noteId if that is id; every other element, and
\* the linked element when its noteId is another note's, stays as it is.
\* Without a note of that id nothing changes.
C38_DeleteNoteFrame ==
    [][\A id \in NoteIds :
          DeleteNote(id) =>
             LET index == FindIndex(notes, id)
             IN  IF index = 0 THEN DState' = DState
                 ELSE LET note == notes[index]
                          x == getElement(DState, note.linkedElementType,
                                          note.linkedElementId)
                      IN  /\ notes' = RemoveAt(notes, index)
                          /\ leafletIdMap' = leafletIdMap
                          /\ \A kind \in Kinds :
                                LET coll == CollectionOf(kind)
                                IN  /\ Len(DState'[coll]) = Len(DState[coll])
                                    /\ \A i \in DOMAIN DState[coll] :
                                          DState'[coll][i] =
                                             IF /\ kind = note.linkedElementType
                                                /\ i = x
                                                /\ Truthy(note.linkedElementId)
                                                /\ DState[coll][i].noteId = id
                                             THEN [DState[coll][i] EXCEPT
                                                      !.noteId = undefined]
                                             ELSE DState[coll][i]]_vars

\* an orphaned note has been deleted: it is gone, and the element it linked
\* to still has the id of its current note, which is stored and links to it
C38_Witness ==
    /\ lastOp.op = "deleteNote"
    /\ FindIndex(notes, lastOp.id) = 0
    /\ \E kind \in Kinds : \E i \in DOMAIN DState[CollectionOf(kind)] :
          LET element == DState[CollectionOf(kind)][i]
          IN  /\ Truthy(element.noteId)
              /\ element.noteId # lastOp.id
              /\ \E k \in DOMAIN notes :
                    /\ notes[k].id = element.noteId
                    /\ notes[k].linkedElementType = kind
                    /\ notes[k].linkedElementId = element.id

\* an element the loops pass over whatever the zone is: its name is missing
\* or empty, its lat or lon is missing or 0, or it is a way without a center
PassedOver(e) == e.name = "" \/ e.lat = 0 \/ e.lon = 0 \/ ~e.center

\* C39: every location of the result has a non-empty name, a non-zero
\* latitude and a non-zero longitude, and no processed element whose name is
\* missing or empty, whose lat or lon is missing or 0, or which is a way
\* without a center, is in the result, inside the zone or not.
C39_OnlyNamedAndPlaced ==
    /\ \A i \in DOMAIN results :
          /\ results[i].main # ""
          /\ results[i].coordinates.lat # 0
          /\ results[i].coordinates.lon # 0
    /\ \A k \in 1..cursor : PassedOver(Document[k]) => ~InResults(Document[k])

\* the whole document processed on a path: an element without a name, one
\* with latitude 0, one with longitude 0 and a way without a center are each
\* within the search distance of the path, none of them is in the result,
\* and the result holds other locations
C39_Witness ==
    /\ bufferPolygon = NoPolygon
    /\ cursor = Len(Document)
    /\ results # <<>>
    /\ \E k \in 1..cursor :
          Document[k].name = "" /\ Acceptance(Document[k]) /\ ~InResults(Document[k])
    /\ \E k \in 1..cursor :
          Document[k].lat = 0 /\ Acceptance(Document[k]) /\ ~InResults(Document[k])
    /\ \E k \in 1..cursor :
          Document[k].lon = 0 /\ Acceptance(Document[k]) /\ ~InResults(Document[k])
    /\ \E k \in 1..cursor :
          ~Document[k].center /\ Acceptance(Document[k]) /\ ~InResults(Document[k])
====
